---- MODULE Spec2Model ----
(***************************************************************************)
(* Work-order lifecycle and inventory reservation ledger of the firewood   *)
(* bank backend (src-tauri/src/main.rs and src-tauri/src/commands/).       *)
(*                                                                         *)
(* The store is modelled by its tables: inventory_items, work_orders and   *)
(* delivery_events, each a sequence in insertion (created_at) order; a     *)
(* row's id is its position.  Every command runs to completion inside its  *)
(* transaction: an Err return drops the transaction, which rolls back      *)
(* every write it made.  Quantities (f64 in the source) are whole numbers  *)
(* of cords here.  Option<T> is <<>> (None) or <<x>> (Some(x)).            *)
(***************************************************************************)
EXTENDS Integers, Sequences, FiniteSets, TLC

\* ---------------------------------------------------------------- bounds
MaxItems == 1
MaxOrders == 2
MaxGateOrders == 1
MaxQty == 2
MaxCords == 2

\* ---------------------------------------------------------------- options
None == <<>>
Some(x) == <<x>>
IsSome(o) == o /= <<>>
unwrap_or(o, d) == IF o = <<>> THEN d ELSE o[1]

\* ---------------------------------------------------------------- strings
\* str::to_lowercase on the strings the model uses.
to_lowercase(s) ==
  CASE s = "Admin" -> "admin"
    [] s = "STAFF" -> "staff"
    [] s = "Volunteer" -> "volunteer"
    [] s = "Completed" -> "completed"
    [] s = "Scheduled" -> "scheduled"
    [] s = "Firewood" -> "firewood"
    [] s = "Cords" -> "cords"
    [] s = "Gloves" -> "gloves"
    [] s = "Dana" -> "dana"
    [] s = "DANA" -> "dana"
    [] s = "Lead" -> "lead"
    [] OTHER -> s

eq_ignore_ascii_case(a, b) == to_lowercase(a) = to_lowercase(b)

\* SQL: lower(unit) LIKE '%cord%' OR lower(name) LIKE '%wood%'
LikeCord(s) == s \in {"cord", "cords"}
LikeWood(s) == s \in {"wood", "firewood"}
MatchesWoodHeuristic(item) ==
  LikeCord(to_lowercase(item.unit)) \/ LikeWood(to_lowercase(item.name))

\* ---------------------------------------------------------------- state
VARIABLES inventory_items, work_orders, delivery_events, last,
          clients, audit_logs, audit_tasks, transactions

vars == <<inventory_items, work_orders, delivery_events, last,
          clients, audit_logs, audit_tasks, transactions>>

\* The rows of the three tables, as one value (what a transaction sees).
Store == [inventory_items |-> inventory_items,
          work_orders |-> work_orders,
          delivery_events |-> delivery_events]

\* ---------------------------------------------------------------- ledger
reserve_states == {"scheduled", "in_progress"}

\* SELECT ... WHERE is_deleted = 0 AND (heuristic) ORDER BY created_at ASC LIMIT 1
\* The position of the tracked stock row, 0 when there is none.
TrackedItem(items) ==
  LET hits == {i \in 1..Len(items) :
                 ~items[i].is_deleted /\ MatchesWoodHeuristic(items[i])}
  IN IF hits = {} THEN 0 ELSE CHOOSE i \in hits : \A j \in hits : i <= j

Clamp0(x) == IF x < 0 THEN 0 ELSE x

\* The ledger's quantities with the consumption on completion left out.
LedgerQuantitiesWithoutConsumption(record, previous_status, next_status, delivery_size_cords) ==
  LET prev_reserved == to_lowercase(previous_status) \in reserve_states
      next_reserved == to_lowercase(next_status) \in reserve_states
      available == record.quantity_on_hand - record.reserved_quantity
      reserving == ~prev_reserved /\ next_reserved
      releasing == prev_reserved /\ ~next_reserved
      reserved1 == IF reserving THEN record.reserved_quantity + delivery_size_cords
                   ELSE IF releasing THEN record.reserved_quantity - delivery_size_cords
                   ELSE record.reserved_quantity
      reserved2 == Clamp0(reserved1)
      on_hand2 == Clamp0(record.quantity_on_hand)
      reserved3 == IF reserved2 > on_hand2 THEN on_hand2 ELSE reserved2
  IN IF reserving /\ available < delivery_size_cords
     THEN [err |-> "insufficient",
           reserved_quantity |-> record.reserved_quantity,
           quantity_on_hand |-> record.quantity_on_hand]
     ELSE [err |-> "ok", reserved_quantity |-> reserved3, quantity_on_hand |-> on_hand2]

\* The quantities the ledger computes for the tracked row `record`, or the
\* availability error.
LedgerQuantities(record, previous_status, next_status, delivery_size_cords) ==
  LET prev_reserved == to_lowercase(previous_status) \in reserve_states
      next_reserved == to_lowercase(next_status) \in reserve_states
      available == record.quantity_on_hand - record.reserved_quantity
      reserving == ~prev_reserved /\ next_reserved
      releasing == prev_reserved /\ ~next_reserved
      reserved1 == IF reserving THEN record.reserved_quantity + delivery_size_cords
                   ELSE IF releasing THEN record.reserved_quantity - delivery_size_cords
                   ELSE record.reserved_quantity
      on_hand1 == IF eq_ignore_ascii_case(next_status, "completed")
                  THEN record.quantity_on_hand - delivery_size_cords
                  ELSE record.quantity_on_hand
      reserved2 == Clamp0(reserved1)
      on_hand2 == Clamp0(on_hand1)
      reserved3 == IF reserved2 > on_hand2 THEN on_hand2 ELSE reserved2
  IN IF reserving /\ available < delivery_size_cords
     THEN [err |-> "insufficient",
           reserved_quantity |-> record.reserved_quantity,
           quantity_on_hand |-> record.quantity_on_hand]
     ELSE [err |-> "ok", reserved_quantity |-> reserved3, quantity_on_hand |-> on_hand2]

\* The ledger with the missing-stock case turned into a silent no-op.
adjust_inventory_silent_without_stock(items, previous_status, next_status, delivery_size_cords) ==
  LET idx == TrackedItem(items)
      q == LedgerQuantities(items[idx], previous_status, next_status, delivery_size_cords)
  IN IF delivery_size_cords <= 0 \/ idx = 0 THEN [err |-> "ok", items |-> items]
     ELSE IF q.err /= "ok" THEN [err |-> q.err, items |-> items]
     ELSE [err |-> "ok",
           items |-> [items EXCEPT ![idx].reserved_quantity = q.reserved_quantity,
                                   ![idx].quantity_on_hand = q.quantity_on_hand]]

adjust_inventory_for_transition_tx(items, previous_status, next_status, delivery_size_cords) ==
  LET idx == TrackedItem(items)
      q == LedgerQuantities(items[idx], previous_status, next_status, delivery_size_cords)
  IN IF delivery_size_cords <= 0 THEN [err |-> "ok", items |-> items]
     ELSE IF idx = 0 THEN [err |-> "no_stock", items |-> items]
     ELSE IF q.err /= "ok" THEN [err |-> q.err, items |-> items]
     ELSE [err |-> "ok",
           items |-> [items EXCEPT ![idx].reserved_quantity = q.reserved_quantity,
                                   ![idx].quantity_on_hand = q.quantity_on_hand]]

\* The ledger reaches its three closing `if`s and enters at least one of them:
\* reserved < 0, on_hand < 0, or reserved > on_hand.
ClampTaken(items, previous_status, next_status, delivery_size_cords) ==
  LET idx == TrackedItem(items)
      record == items[idx]
      prev_reserved == to_lowercase(previous_status) \in reserve_states
      next_reserved == to_lowercase(next_status) \in reserve_states
      reserving == ~prev_reserved /\ next_reserved
      releasing == prev_reserved /\ ~next_reserved
      reserved1 == IF reserving THEN record.reserved_quantity + delivery_size_cords
                   ELSE IF releasing THEN record.reserved_quantity - delivery_size_cords
                   ELSE record.reserved_quantity
      on_hand1 == IF eq_ignore_ascii_case(next_status, "completed")
                  THEN record.quantity_on_hand - delivery_size_cords
                  ELSE record.quantity_on_hand
  IN /\ delivery_size_cords > 0
     /\ idx /= 0
     /\ ~(reserving /\ record.quantity_on_hand - record.reserved_quantity < delivery_size_cords)
     /\ \/ reserved1 < 0
        \/ on_hand1 < 0
        \/ Clamp0(reserved1) > Clamp0(on_hand1)

\* ---------------------------------------------------------------- calls
\* The record of the most recent command: its name, its arguments, its result,
\* and the quantities of the tracked stock row when it started (None without one).
TrackedQuantities(items) ==
  IF TrackedItem(items) = 0 THEN None
  ELSE Some([quantity_on_hand |-> items[TrackedItem(items)].quantity_on_hand,
             reserved_quantity |-> items[TrackedItem(items)].reserved_quantity])

NoArgs ==
  [id |-> 0, role |-> None, is_driver |-> None, previous_status |-> None,
   status |-> None, mileage |-> None, cords |-> None,
   username |-> None, hipaa_certified |-> None, paired_order_id |-> None]

\* returned holds the rows a listing command returns (empty for the others).
Call(op, result, args) ==
  [op |-> op, result |-> result, args |-> args,
   before |-> TrackedQuantities(inventory_items), returned |-> <<>>]

NoCall ==
  [op |-> "none", result |-> "ok", args |-> NoArgs, before |-> None, returned |-> <<>>]

\* ---------------------------------------------------------------- audit_logs
\* The audit table is written by every command and read by none of them.  A
\* specification that states nothing about it starts with observed = FALSE and
\* the rows are then left out of the state; with observed = TRUE every insert
\* is kept, in insertion order.
AuditRow(event, role, actor, entity, entity_id, field, old_value, new_value) ==
  [event |-> event, role |-> role, actor |-> actor, entity |-> entity,
   entity_id |-> entity_id, field |-> field,
   old_value |-> old_value, new_value |-> new_value]

\* execute(pool) of an INSERT INTO audit_logs: it fails, adding nothing, while
\* the table is unavailable.
InsertAudit(log, row) ==
  IF log.observed /\ log.available THEN [log EXCEPT !.rows = Append(@, row)] ELSE log

\* The Result of that execute(pool).await.
InsertAuditResult(log) == IF log.available THEN "ok" ELSE "error"

\* The insert's Result returned to the calling command with `?`.
Propagated(result) == result

\* let _ = sqlx::query(..).execute(pool).await; the Result is dropped and the
\* calling command goes on whatever it was.
Swallowed(result) == "ok"

\* An audit insert that overwrites the newest row instead of adding one.
audit_db_overwriting(log, event, role, actor) ==
  IF log.observed /\ log.rows /= <<>>
  THEN [log EXCEPT !.rows[Len(log.rows)] =
          AuditRow(event, role, actor, None, None, None, None, None)]
  ELSE InsertAudit(log, AuditRow(event, role, actor, None, None, None, None, None))

\* INSERT INTO audit_logs (id, event, role, actor, created_at): the other
\* columns are NULL.
audit_db(log, event, role, actor) ==
  InsertAudit(log, AuditRow(event, role, actor, None, None, None, None, None))

\* INSERT INTO audit_logs with entity, entity_id, field, old_value, new_value.
audit_change(log, event, role, actor, entity, entity_id, field, old_value, new_value) ==
  InsertAudit(log, AuditRow(event, role, actor, Some(entity), Some(entity_id),
                            Some(field), old_value, new_value))

Unobserved == [observed |-> FALSE, available |-> TRUE, rows |-> <<>>]
Observed == [observed |-> TRUE, available |-> TRUE, rows |-> <<>>]

\* What a command does after its audit insert: it carries on with `rest`
\* unless the insert's Result, as handed on, is an error.
after_audit(op, rest) ==
  IF Swallowed(InsertAuditResult(audit_logs)) = "ok" THEN rest
  ELSE /\ last' = Call(op, "audit_error", NoArgs)
       /\ UNCHANGED <<inventory_items, work_orders, delivery_events, clients, audit_logs,
                      audit_tasks, transactions>>

\* The audit table becomes unavailable (its inserts fail) or available again.
audit_fault ==
  /\ audit_logs' = [audit_logs EXCEPT !.available = ~@]
  /\ UNCHANGED <<inventory_items, work_orders, delivery_events, last, clients,
                 audit_tasks, transactions>>

\* ---------------------------------------------------------------- inventory commands
\* INSERT INTO inventory_items (..., quantity_on_hand, unit, ...): reserved_quantity
\* and is_deleted take the column defaults.
create_inventory_item(name, unit, quantity_on_hand) ==
  /\ inventory_items' = Append(inventory_items,
       [name |-> name, unit |-> unit, quantity_on_hand |-> quantity_on_hand,
        reserved_quantity |-> 0, is_deleted |-> FALSE])
  /\ last' = Call("create_inventory_item", "ok",
                  [NoArgs EXCEPT !.id = Len(inventory_items) + 1])
  /\ audit_logs' = audit_db(audit_logs, "create_inventory_item", "unknown", "unknown")
  /\ UNCHANGED <<work_orders, delivery_events, clients, audit_tasks, transactions>>

\* UPDATE inventory_items SET name, quantity_on_hand, unit, ... WHERE id = ?
\* (no is_deleted filter; an id that names no row updates nothing).
update_inventory_item(id, name, unit, quantity_on_hand) ==
  /\ inventory_items' =
       IF id \in 1..Len(inventory_items)
       THEN [inventory_items EXCEPT ![id].name = name, ![id].unit = unit,
                                    ![id].quantity_on_hand = quantity_on_hand]
       ELSE inventory_items
  /\ last' = Call("update_inventory_item", "ok", [NoArgs EXCEPT !.id = id])
  /\ audit_logs' = audit_db(audit_logs, "update_inventory_item", "unknown", "unknown")
  /\ UNCHANGED <<work_orders, delivery_events, clients, audit_tasks, transactions>>

\* UPDATE inventory_items SET is_deleted = 1 WHERE id = ?
delete_inventory_item(id) ==
  /\ inventory_items' =
       IF id \in 1..Len(inventory_items)
       THEN [inventory_items EXCEPT ![id].is_deleted = TRUE]
       ELSE inventory_items
  /\ last' = Call("delete_inventory_item", "ok", [NoArgs EXCEPT !.id = id])
  /\ audit_logs' = audit_db(audit_logs, "delete_inventory_item", "unknown", "unknown")
  /\ UNCHANGED <<work_orders, delivery_events, clients, audit_tasks, transactions>>

\* ---------------------------------------------------------------- create_work_order
\* The creation gate with the roles of the assignment gate (admin, lead) added.
MayCreateWorkOrderOrLead(role_val) ==
  role_val = "admin" \/ role_val = "staff" \/ role_val = "lead"

\* if role_val != "admin" && role_val != "staff" { return Err(..) }
MayCreateWorkOrder(role_val) == role_val = "admin" \/ role_val = "staff"

\* The transaction of create_work_order (main.rs) on store s: its result and
\* the store it commits (s itself when it returns Err and rolls back).
CreateWorkOrderTx(s, input, role) ==
  LET status == unwrap_or(input.status, "draft")
      role_val == to_lowercase(unwrap_or(role, "admin"))
      assignees_store == unwrap_or(input.assignees_json, "[]")
      id == Len(s.work_orders) + 1
      row == [status |-> status,
              delivery_size_cords |-> input.delivery_size_cords,
              pickup_quantity_cords |-> None,
              mileage |-> input.mileage,
              scheduled_date |-> input.scheduled_date,
              assignees_json |-> Some(assignees_store),
              paired_order_id |-> None,
              client_id |-> input.client_id,
              gate_combo |-> input.gate_combo,
              notes |-> input.notes,
              telephone |-> input.telephone,
              physical_address_line1 |-> Some(input.physical_address_line1),
              physical_address_city |-> Some(input.physical_address_city),
              physical_address_state |-> Some(input.physical_address_state),
              physical_address_postal_code |-> Some(input.physical_address_postal_code),
              is_deleted |-> FALSE]
      ledger == adjust_inventory_for_transition_tx(
                  s.inventory_items, "draft", status,
                  unwrap_or(input.delivery_size_cords, 0))
      events == IF IsSome(input.scheduled_date)
                THEN Append(s.delivery_events,
                            [work_order_id |-> id,
                             assigned_user_ids_json |-> Some(assignees_store)])
                ELSE s.delivery_events
  IN IF ~MayCreateWorkOrder(role_val)
     THEN [result |-> "forbidden", store |-> s]
     ELSE IF ledger.err /= "ok"
     THEN [result |-> ledger.err, store |-> s]
     ELSE [result |-> "ok",
           store |-> [inventory_items |-> ledger.items,
                      work_orders |-> Append(s.work_orders, row),
                      delivery_events |-> events]]

create_work_order(input, role) ==
  LET r == CreateWorkOrderTx(Store, input, role)
  IN /\ inventory_items' = r.store.inventory_items
     /\ work_orders' = r.store.work_orders
     /\ delivery_events' = r.store.delivery_events
     /\ last' = Call("create_work_order", r.result,
                     [NoArgs EXCEPT !.id = Len(work_orders) + 1, !.role = role,
                                    !.status = input.status, !.mileage = input.mileage,
                                    !.cords = input.delivery_size_cords])
     /\ audit_logs' =
          IF r.result = "forbidden" THEN audit_logs
          ELSE audit_db(audit_logs, "create_work_order",
                        to_lowercase(unwrap_or(role, "admin")), "unknown")
     /\ UNCHANGED <<clients, audit_tasks, transactions>>

\* ---------------------------------------------------------------- update_work_order_status
driver_allowed == {"in_progress", "delivered", "issue"}

\* The status checks without the volunteer check.
StatusGateWithoutVolunteerCheck(role_val, driver_capable, input, next_status) ==
  IF next_status = "completed" /\ ~IsSome(input.mileage) THEN "validation"
  ELSE IF driver_capable /\ IsSome(input.status) /\ next_status \notin driver_allowed
  THEN "forbidden"
  ELSE "ok"

\* The checks of update_work_order_status between reading the row and
\* writing it: the first error they return, or "ok".
StatusGate(role_val, driver_capable, input, next_status) ==
  IF next_status = "completed" /\ ~IsSome(input.mileage) THEN "validation"
  ELSE IF role_val = "volunteer" /\ ~driver_capable THEN "forbidden"
  ELSE IF driver_capable /\ IsSome(input.status) /\ next_status \notin driver_allowed
  THEN "forbidden"
  ELSE "ok"

\* The transaction of update_work_order_status (main.rs) on store s.
UpdateWorkOrderStatusTx(s, input, role) ==
  LET role_val == to_lowercase(unwrap_or(role, "admin"))
      driver_capable == unwrap_or(input.is_driver, FALSE)
      found == /\ input.work_order_id \in 1..Len(s.work_orders)
               /\ ~s.work_orders[input.work_order_id].is_deleted
      existing == s.work_orders[input.work_order_id]
      current_status == existing.status
      next_status == unwrap_or(input.status, current_status)
      delivery_size == unwrap_or(existing.delivery_size_cords, 0)
      gate == StatusGate(role_val, driver_capable, input, next_status)
      updated == [s.work_orders EXCEPT
                    ![input.work_order_id].status = next_status,
                    ![input.work_order_id].mileage =
                       IF IsSome(input.mileage) THEN input.mileage ELSE @]
      ledger == IF current_status /= next_status
                THEN adjust_inventory_for_transition_tx(
                       s.inventory_items, current_status, next_status, delivery_size)
                ELSE [err |-> "ok", items |-> s.inventory_items]
  IN IF ~found THEN [result |-> "not_found", store |-> s]
     ELSE IF gate /= "ok" THEN [result |-> gate, store |-> s]
     ELSE IF ledger.err /= "ok"
     THEN [result |-> ledger.err, store |-> s]
     ELSE [result |-> "ok",
           store |-> [inventory_items |-> ledger.items,
                      work_orders |-> updated,
                      delivery_events |-> s.delivery_events]]

update_work_order_status(input, role) ==
  LET r == UpdateWorkOrderStatusTx(Store, input, role)
  IN /\ inventory_items' = r.store.inventory_items
     /\ work_orders' = r.store.work_orders
     /\ delivery_events' = r.store.delivery_events
     /\ last' = Call("update_work_order_status", r.result,
                     [NoArgs EXCEPT !.id = input.work_order_id, !.role = role,
                                    !.is_driver = input.is_driver,
                                    !.status = input.status, !.mileage = input.mileage])
     /\ audit_logs' = audit_db(audit_logs, "update_work_order_status",
                               to_lowercase(unwrap_or(role, "admin")), "unknown")
     /\ UNCHANGED <<clients, audit_tasks, transactions>>

\* ---------------------------------------------------------------- commands/work_orders.rs
\* The ledger of the commands module: a reservation moves the quantity from
\* on-hand to reserved, a release moves it back.
commands_adjust_inventory_for_transition_tx(items, previous_status, next_status, delivery_size_cords) ==
  LET idx == TrackedItem(items)
      record == items[idx]
      prev_reserved == to_lowercase(previous_status) \in reserve_states
      next_reserved == to_lowercase(next_status) \in reserve_states
      reserving == ~prev_reserved /\ next_reserved
      releasing == prev_reserved /\ ~next_reserved
      reserved1 == IF reserving THEN record.reserved_quantity + delivery_size_cords
                   ELSE IF releasing THEN record.reserved_quantity - delivery_size_cords
                   ELSE record.reserved_quantity
      on_hand1 == IF reserving THEN record.quantity_on_hand - delivery_size_cords
                  ELSE IF releasing THEN record.quantity_on_hand + delivery_size_cords
                  ELSE record.quantity_on_hand
  IN IF delivery_size_cords <= 0 THEN [err |-> "ok", items |-> items]
     ELSE IF idx = 0 THEN [err |-> "no_stock", items |-> items]
     ELSE IF on_hand1 < 0 THEN [err |-> "insufficient", items |-> items]
     ELSE [err |-> "ok",
           items |-> [items EXCEPT ![idx].quantity_on_hand = on_hand1,
                                   ![idx].reserved_quantity = Clamp0(reserved1)]]

\* The bind order of the back-reference UPDATE swapped: the new order's row
\* is written with the pair's id, the pair itself is left alone.
BackReferenceSwapped(orders, paired_order_id, id) ==
  IF IsSome(paired_order_id) /\ paired_order_id[1] /= 0 /\ id \in 1..Len(orders)
  THEN [orders EXCEPT ![id].paired_order_id = paired_order_id]
  ELSE orders

\* UPDATE work_orders SET paired_order_id = <new id> WHERE id = <paired id>,
\* run when paired_order_id is given and not empty; an id that names no row
\* updates nothing.  A paired_order_id of 0 stands for the empty string.
BackReference(orders, paired_order_id, id) ==
  IF IsSome(paired_order_id) /\ paired_order_id[1] /= 0
     /\ paired_order_id[1] \in 1..Len(orders)
  THEN [orders EXCEPT ![paired_order_id[1]].paired_order_id = Some(id)]
  ELSE orders

\* The transaction of create_work_order (commands/work_orders.rs) on store s.
CommandsCreateWorkOrderTx(s, input, role) ==
  LET status == unwrap_or(input.status, "draft")
      role_val == to_lowercase(unwrap_or(role, "admin"))
      assignees_store == unwrap_or(input.assignees_json, "[]")
      id == Len(s.work_orders) + 1
      row == [status |-> status,
              delivery_size_cords |-> input.delivery_size_cords,
              pickup_quantity_cords |-> input.pickup_quantity_cords,
              mileage |-> input.mileage,
              scheduled_date |-> input.scheduled_date,
              assignees_json |-> Some(assignees_store),
              paired_order_id |-> input.paired_order_id,
              client_id |-> input.client_id,
              gate_combo |-> input.gate_combo,
              notes |-> input.notes,
              telephone |-> input.telephone,
              physical_address_line1 |-> Some(input.physical_address_line1),
              physical_address_city |-> Some(input.physical_address_city),
              physical_address_state |-> Some(input.physical_address_state),
              physical_address_postal_code |-> Some(input.physical_address_postal_code),
              is_deleted |-> FALSE]
      inserted == Append(s.work_orders, row)
      paired == BackReference(inserted, input.paired_order_id, id)
      inventory_cords == IF eq_ignore_ascii_case(status, "picked_up")
                         THEN unwrap_or(input.pickup_quantity_cords, 0)
                         ELSE unwrap_or(input.delivery_size_cords, 0)
      ledger == commands_adjust_inventory_for_transition_tx(
                  s.inventory_items, "draft", status, inventory_cords)
      events == IF IsSome(input.scheduled_date)
                THEN Append(s.delivery_events,
                            [work_order_id |-> id,
                             assigned_user_ids_json |-> Some(assignees_store)])
                ELSE s.delivery_events
  IN IF ~MayCreateWorkOrder(role_val)
     THEN [result |-> "forbidden", store |-> s]
     ELSE IF ledger.err /= "ok"
     THEN [result |-> ledger.err, store |-> s]
     ELSE [result |-> "ok",
           store |-> [inventory_items |-> ledger.items,
                      work_orders |-> paired,
                      delivery_events |-> events]]

commands_create_work_order(input, role) ==
  LET r == CommandsCreateWorkOrderTx(Store, input, role)
  IN /\ inventory_items' = r.store.inventory_items
     /\ work_orders' = r.store.work_orders
     /\ delivery_events' = r.store.delivery_events
     /\ last' = Call("commands::create_work_order", r.result,
                     [NoArgs EXCEPT !.id = Len(work_orders) + 1, !.role = role,
                                    !.status = input.status, !.mileage = input.mileage,
                                    !.cords = input.delivery_size_cords,
                                    !.paired_order_id = input.paired_order_id])
     /\ audit_logs' =
          IF r.result = "forbidden" THEN audit_logs
          ELSE audit_db(audit_logs, "create_work_order",
                        to_lowercase(unwrap_or(role, "admin")), "unknown")
     /\ UNCHANGED <<clients, audit_tasks, transactions>>

\* ---------------------------------------------------------------- list_work_orders
\* serde_json::from_str::<Vec<String>> on the assignee texts the model uses;
\* any other text is not a JSON array of strings and fails to parse.
from_str(text) ==
  CASE text = "[]" -> <<>>
    [] text = "[\"Dana\"]" -> <<"Dana">>
    [] text = "[\"lee\",\"DANA\"]" -> <<"lee", "DANA">>
    [] text = "[\"lee\"]" -> <<"lee">>
    [] OTHER -> <<>>

\* assignees.iter().map(|a| a.to_lowercase()).any(|a| a == username_lower)
IsAssigned(assignees_json, username_lower) ==
  LET assignees == from_str(unwrap_or(assignees_json, "[]"))
  IN \E k \in 1..Len(assignees) : to_lowercase(assignees[k]) = username_lower

RECURSIVE DescIds(_)
DescIds(ids) ==
  IF ids = {} THEN <<>>
  ELSE LET m == CHOOSE x \in ids : \A y \in ids : y <= x
       IN <<m>> \o DescIds(ids \ {m})

WorkOrderRow(orders, id) ==
  [id |-> id,
   status |-> orders[id].status,
   scheduled_date |-> orders[id].scheduled_date,
   gate_combo |-> orders[id].gate_combo,
   notes |-> orders[id].notes,
   telephone |-> orders[id].telephone,
   physical_address_line1 |-> orders[id].physical_address_line1,
   physical_address_city |-> orders[id].physical_address_city,
   physical_address_state |-> orders[id].physical_address_state,
   physical_address_postal_code |-> orders[id].physical_address_postal_code,
   mileage |-> orders[id].mileage,
   delivery_size_cords |-> orders[id].delivery_size_cords,
   assignees_json |-> orders[id].assignees_json]

\* SELECT ... WHERE is_deleted = 0
\* ORDER BY (scheduled_date IS NULL), datetime(scheduled_date) DESC, created_at DESC
\* (the model has one scheduled date; created_at grows with the id).
SelectWorkOrders(orders) ==
  LET kept == {i \in 1..Len(orders) : ~orders[i].is_deleted}
      dated == {i \in kept : IsSome(orders[i].scheduled_date)}
      ids == DescIds(dated) \o DescIds(kept \ dated)
  IN [k \in 1..Len(ids) |-> WorkOrderRow(orders, ids[k])]

\* SELECT ... WHERE is_deleted = 0 ORDER BY COALESCE(scheduled_date, created_at) DESC
\* (created_at, the time of the insert, is later than the one scheduled date).
CommandsSelectWorkOrders(orders) ==
  LET kept == {i \in 1..Len(orders) : ~orders[i].is_deleted}
      dated == {i \in kept : IsSome(orders[i].scheduled_date)}
      ids == DescIds(kept \ dated) \o DescIds(dated)
  IN [k \in 1..Len(ids) |-> WorkOrderRow(orders, ids[k])]

RECURSIVE FilterAssigned(_, _)
FilterAssigned(rows, username_lower) ==
  IF rows = <<>> THEN <<>>
  ELSE (IF IsAssigned(Head(rows).assignees_json, username_lower)
        THEN <<Head(rows)>> ELSE <<>>) \o FilterAssigned(Tail(rows), username_lower)

StripForVolunteer(wo) ==
  [wo EXCEPT !.telephone = None, !.gate_combo = None, !.notes = None,
             !.physical_address_line1 = None, !.physical_address_city = None,
             !.physical_address_state = None, !.physical_address_postal_code = None]

MaskForStaff(wo) == [wo EXCEPT !.telephone = None, !.gate_combo = None, !.notes = None]

CommandsMask(wo) ==
  [wo EXCEPT !.gate_combo = None, !.notes = None, !.telephone = None,
             !.physical_address_line1 = Some("Hidden"),
             !.physical_address_city = Some("Hidden"),
             !.physical_address_state = Some("Hidden"),
             !.physical_address_postal_code = Some("Hidden")]

\* The rows list_work_orders (main.rs) returns.
ListWorkOrdersRows(orders, role, username, hipaa_certified, is_driver) ==
  LET rows == SelectWorkOrders(orders)
      role_val == to_lowercase(unwrap_or(role, "admin"))
      username_lower == to_lowercase(unwrap_or(username, ""))
      is_hipaa == unwrap_or(hipaa_certified, FALSE)
      driver_capable == unwrap_or(is_driver, FALSE)
      assigned == FilterAssigned(rows, username_lower)
  IN IF role_val = "volunteer" \/ driver_capable
     THEN [k \in 1..Len(assigned) |->
             IF role_val = "volunteer" THEN StripForVolunteer(assigned[k])
             ELSE assigned[k]]
     ELSE IF role_val = "staff" \/ role_val = "lead"
     THEN (IF role_val = "lead" /\ is_hipaa THEN rows
           ELSE [k \in 1..Len(rows) |-> MaskForStaff(rows[k])])
     ELSE rows

\* The rows list_work_orders (commands/work_orders.rs) returns.
CommandsListWorkOrdersRows(orders, role, username, hipaa_certified, is_driver) ==
  LET rows == CommandsSelectWorkOrders(orders)
      role_val == to_lowercase(unwrap_or(role, "admin"))
      username_val == unwrap_or(username, "")
      is_hipaa == unwrap_or(hipaa_certified, FALSE)
      driver_capable == unwrap_or(is_driver, FALSE)
  IN IF driver_capable THEN FilterAssigned(rows, to_lowercase(username_val))
     ELSE IF ~(role_val = "admin" \/ (role_val = "lead" /\ is_hipaa))
     THEN [k \in 1..Len(rows) |-> CommandsMask(rows[k])]
     ELSE rows

list_work_orders(role, username, hipaa_certified, is_driver) ==
  /\ last' = [Call("list_work_orders", "ok",
                   [NoArgs EXCEPT !.role = role, !.username = username,
                                  !.hipaa_certified = hipaa_certified,
                                  !.is_driver = is_driver])
              EXCEPT !.returned = ListWorkOrdersRows(work_orders, role, username,
                                                     hipaa_certified, is_driver)]
  /\ audit_logs' = audit_db(audit_logs, "list_work_orders",
                            to_lowercase(unwrap_or(role, "admin")),
                            unwrap_or(username, ""))
  /\ UNCHANGED <<inventory_items, work_orders, delivery_events, clients, audit_tasks,
                 transactions>>

commands_list_work_orders(role, username, hipaa_certified, is_driver) ==
  /\ last' = [Call("commands::list_work_orders", "ok",
                   [NoArgs EXCEPT !.role = role, !.username = username,
                                  !.hipaa_certified = hipaa_certified,
                                  !.is_driver = is_driver])
              EXCEPT !.returned = CommandsListWorkOrdersRows(work_orders, role, username,
                                                             hipaa_certified, is_driver)]
  /\ audit_logs' = audit_db(audit_logs, "list_work_orders",
                            to_lowercase(unwrap_or(role, "admin")),
                            unwrap_or(username, ""))
  /\ UNCHANGED <<inventory_items, work_orders, delivery_events, clients, audit_tasks,
                 transactions>>

\* ---------------------------------------------------------------- assignees and status (audited)
\* f64::to_string on the whole numbers the model uses.
f64_to_string(n) ==
  CASE n = 0 -> "0"
    [] n = 1 -> "1"
    [] n = 2 -> "2"
    [] n = 12 -> "12"
    [] OTHER -> "n"

MayAssign(role_val) == role_val = "admin" \/ role_val = "lead"

\* The assignee update with the second UPDATE left out.
MirrorAssigneesSkipped(events, id, assignees_json) == events

\* UPDATE delivery_events SET assigned_user_ids_json = COALESCE(?, '[]')
\* WHERE work_order_id = ?
MirrorAssignees(events, id, assignees_json) ==
  [k \in 1..Len(events) |->
     IF events[k].work_order_id = id
     THEN [events[k] EXCEPT !.assigned_user_ids_json = Some(unwrap_or(assignees_json, "[]"))]
     ELSE events[k]]

\* update_work_order_assignees (main.rs): both UPDATEs in one transaction.
update_work_order_assignees(input, role) ==
  LET role_val == to_lowercase(unwrap_or(role, "admin"))
      id == input.work_order_id
  IN /\ last' = Call("update_work_order_assignees",
                     IF MayAssign(role_val) THEN "ok" ELSE "forbidden",
                     [NoArgs EXCEPT !.id = id, !.role = role])
     /\ IF MayAssign(role_val)
        THEN /\ work_orders' =
                  IF id \in 1..Len(work_orders)
                  THEN [work_orders EXCEPT ![id].assignees_json = input.assignees_json]
                  ELSE work_orders
             /\ delivery_events' = MirrorAssignees(delivery_events, id, input.assignees_json)
             /\ audit_logs' = audit_db(audit_logs, "update_work_order_assignees",
                                       role_val, "unknown")
        ELSE UNCHANGED <<work_orders, delivery_events, audit_logs>>
     /\ UNCHANGED <<inventory_items, clients, audit_tasks, transactions>>

\* update_work_order_assignees (commands/work_orders.rs): reads the stored
\* assignees, writes the new ones, then records the change.
commands_update_work_order_assignees(input, role, actor) ==
  LET role_val == to_lowercase(unwrap_or(role, "admin"))
      actor_val == unwrap_or(actor, "unknown")
      id == input.work_order_id
      found == id \in 1..Len(work_orders)
      existing == found /\ ~work_orders[id].is_deleted
  IN /\ last' = Call("commands::update_work_order_assignees",
                     IF MayAssign(role_val) THEN "ok" ELSE "forbidden",
                     [NoArgs EXCEPT !.id = id, !.role = role])
     /\ IF MayAssign(role_val)
        THEN /\ work_orders' =
                  IF found
                  THEN [work_orders EXCEPT ![id].assignees_json = input.assignees_json]
                  ELSE work_orders
             /\ audit_logs' =
                  IF existing
                  THEN audit_change(audit_logs, "update_work_order_assignees", role_val,
                                    actor_val, "work_orders", id, "assignees_json",
                                    work_orders[id].assignees_json, input.assignees_json)
                  ELSE audit_logs
        ELSE UNCHANGED <<work_orders, audit_logs>>
     /\ UNCHANGED <<inventory_items, delivery_events, clients, audit_tasks,
                    transactions>>

\* The writes of update_work_order_status (commands/work_orders.rs) on store
\* s: UPDATE work_orders SET [status = ?] [, mileage = ?] WHERE id = ?, with
\* no gate, no is_deleted filter and no ledger call; the result is always Ok.
CommandsUpdateWorkOrderStatusTx(s, input, role) ==
  LET driver_capable == unwrap_or(input.is_driver, FALSE)
      id == input.work_order_id
  IN [result |-> "ok",
      store |-> [s EXCEPT !.work_orders =
                   IF id \in 1..Len(s.work_orders)
                   THEN [s.work_orders EXCEPT
                           ![id].status = IF IsSome(input.status) THEN input.status[1] ELSE @,
                           ![id].mileage = IF IsSome(input.mileage) /\ driver_capable
                                           THEN input.mileage ELSE @]
                   ELSE s.work_orders]]

\* update_work_order_status (commands/work_orders.rs): no gates and no ledger;
\* the status is written when supplied, the mileage when supplied by a driver.
commands_update_work_order_status(input, role, actor) ==
  LET role_val == to_lowercase(unwrap_or(role, "admin"))
      actor_val == unwrap_or(actor, "unknown")
      driver_capable == unwrap_or(input.is_driver, FALSE)
      id == input.work_order_id
      found == id \in 1..Len(work_orders)
      existing == found /\ ~work_orders[id].is_deleted
      prev == work_orders[id]
      log0 == audit_db(audit_logs, "update_work_order_status", role_val, actor_val)
      log1 == IF existing /\ IsSome(input.status) /\ prev.status /= input.status[1]
              THEN audit_change(log0, "update_work_order_status", role_val, actor_val,
                                "work_orders", id, "status",
                                Some(prev.status), input.status)
              ELSE log0
      log2 == IF existing /\ IsSome(input.mileage) /\ driver_capable
                 /\ prev.mileage /= input.mileage
              THEN audit_change(log1, "update_work_order_status", role_val, actor_val,
                                "work_orders", id, "mileage",
                                IF IsSome(prev.mileage)
                                THEN Some(f64_to_string(prev.mileage[1])) ELSE None,
                                Some(f64_to_string(input.mileage[1])))
              ELSE log1
  IN /\ work_orders' = CommandsUpdateWorkOrderStatusTx(Store, input, role).store.work_orders
     /\ audit_logs' = log2
     /\ last' = Call("commands::update_work_order_status", "ok",
                     [NoArgs EXCEPT !.id = id, !.role = role,
                                    !.is_driver = input.is_driver,
                                    !.status = input.status, !.mileage = input.mileage])
     /\ UNCHANGED <<inventory_items, delivery_events, clients, audit_tasks,
                    transactions>>

\* ---------------------------------------------------------------- clients
\* A client row keeps the name, contact and address columns; the remaining
\* columns (title, onboarding, referral, wood size, directions) are left out.
\* str::trim on the names the model uses.
trim(s) ==
  CASE s = " Ann" -> "Ann"
    [] OTHER -> s

\* format!("{} {}", first_name, last_name).trim()
FullName(first_name, last_name) ==
  CASE first_name = "" -> last_name
    [] last_name = "" -> first_name
    [] first_name = "Ann" /\ last_name = "Lee" -> "Ann Lee"
    [] first_name = "Bo" /\ last_name = "Lee" -> "Bo Lee"
    [] OTHER -> "?"

\* lower(a) LIKE '%' || lower(b) || '%' on the names FullName produces.
NameContains(a, b) ==
  a = b \/ b = "" \/ (a \in {"Ann Lee", "Bo Lee"} /\ b = "Lee")
        \/ (a = "Ann Lee" /\ b = "Ann") \/ (a = "Bo Lee" /\ b = "Bo")

\* The conflict check of create_client: some non-deleted client with a
\* matching name lives at another address.
NameConflict(rows, name, input) ==
  \E i \in 1..Len(rows) :
    /\ ~rows[i].is_deleted
    /\ (NameContains(rows[i].name, name) \/ NameContains(name, rows[i].name))
    /\ ~(/\ eq_ignore_ascii_case(rows[i].physical_address_line1,
                                 input.physical_address_line1)
         /\ eq_ignore_ascii_case(rows[i].physical_address_city,
                                 input.physical_address_city)
         /\ eq_ignore_ascii_case(rows[i].physical_address_state,
                                 input.physical_address_state))

StoredClient(input, name, first_name, last_name) ==
  [name |-> name, first_name |-> Some(first_name), last_name |-> Some(last_name),
   physical_address_line1 |-> input.physical_address_line1,
   physical_address_line2 |-> input.physical_address_line2,
   physical_address_city |-> input.physical_address_city,
   physical_address_state |-> input.physical_address_state,
   physical_address_postal_code |-> input.physical_address_postal_code,
   mailing_address_line1 |-> input.mailing_address_line1,
   mailing_address_line2 |-> input.mailing_address_line2,
   mailing_address_city |-> input.mailing_address_city,
   mailing_address_state |-> input.mailing_address_state,
   mailing_address_postal_code |-> input.mailing_address_postal_code,
   telephone |-> input.telephone, email |-> input.email,
   approval_status |-> unwrap_or(input.approval_status, "pending"),
   gate_combo |-> input.gate_combo, notes |-> input.notes,
   is_deleted |-> FALSE]

create_client(input) ==
  LET first_name == trim(unwrap_or(input.first_name, ""))
      last_name == trim(unwrap_or(input.last_name, ""))
      name == FullName(first_name, last_name)
      result == IF first_name = "" /\ last_name = "" THEN "validation"
                ELSE IF NameConflict(clients, name, input) THEN "conflict"
                ELSE "ok"
  IN /\ clients' = IF result = "ok"
                   THEN Append(clients, StoredClient(input, name, first_name, last_name))
                   ELSE clients
     /\ last' = Call("create_client", result, [NoArgs EXCEPT !.id = Len(clients) + 1])
     /\ audit_logs' = audit_db(audit_logs, "create_client", "unknown", "unknown")
     /\ UNCHANGED <<inventory_items, work_orders, delivery_events, audit_tasks,
                    transactions>>

\* UPDATE clients SET is_deleted = 1 WHERE id = ?
delete_client(id) ==
  /\ clients' = IF id \in 1..Len(clients)
                THEN [clients EXCEPT ![id].is_deleted = TRUE]
                ELSE clients
  /\ last' = Call("delete_client", "ok", [NoArgs EXCEPT !.id = id])
  /\ audit_logs' = audit_db(audit_logs, "delete_client", "unknown", "unknown")
  /\ UNCHANGED <<inventory_items, work_orders, delivery_events, audit_tasks,
                 transactions>>

\* The columns list_clients selects (is_deleted is not one of them).
ClientRow(rows, id) ==
  [k \in (DOMAIN rows[id]) \ {"is_deleted"} |-> rows[id][k]] @@ [id |-> id]

\* SELECT ... FROM clients WHERE is_deleted = 0
\* ORDER BY COALESCE(date_of_onboarding, created_at) ASC (no onboarding dates
\* in the model: insertion order).
RECURSIVE SelectClients(_, _)
SelectClients(rows, from) ==
  IF from > Len(rows) THEN <<>>
  ELSE (IF rows[from].is_deleted THEN <<>> ELSE <<ClientRow(rows, from)>>)
       \o SelectClients(rows, from + 1)

\* The ids of the clients of the orders assigned to the caller.
AllowedClientIds(orders, username_lower) ==
  {orders[i].client_id : i \in {j \in 1..Len(orders) :
      /\ ~orders[j].is_deleted
      /\ orders[j].client_id /= 0
      /\ IsAssigned(orders[j].assignees_json, username_lower)}}

RECURSIVE FilterClients(_, _)
FilterClients(rows, allowed_ids) ==
  IF rows = <<>> THEN <<>>
  ELSE (IF Head(rows).id \in allowed_ids THEN <<Head(rows)>> ELSE <<>>)
       \o FilterClients(Tail(rows), allowed_ids)

MaskClient(c) ==
  [c EXCEPT !.email = None, !.telephone = None, !.gate_combo = None,
            !.physical_address_line1 = "Hidden", !.physical_address_city = "Hidden",
            !.physical_address_state = "Hidden",
            !.physical_address_postal_code = "Hidden"]

\* The rows list_clients returns (main.rs and commands/clients.rs agree).
ListClientsRows(rows0, orders, role, username, hipaa_certified, is_driver) ==
  LET rows == SelectClients(rows0, 1)
      role_val == to_lowercase(unwrap_or(role, "admin"))
      username_lower == to_lowercase(unwrap_or(username, ""))
      is_hipaa == unwrap_or(hipaa_certified, FALSE)
      driver_capable == unwrap_or(is_driver, FALSE)
      allowed == FilterClients(rows, AllowedClientIds(orders, username_lower))
  IN IF driver_capable
     THEN [k \in 1..Len(allowed) |->
             [allowed[k] EXCEPT !.gate_combo = None, !.notes = None]]
     ELSE IF ~(role_val = "admin" \/ (role_val = "lead" /\ is_hipaa))
     THEN [k \in 1..Len(rows) |-> MaskClient(rows[k])]
     ELSE rows

list_clients(role, username, hipaa_certified, is_driver) ==
  /\ last' = [Call("list_clients", "ok",
                   [NoArgs EXCEPT !.role = role, !.username = username,
                                  !.hipaa_certified = hipaa_certified,
                                  !.is_driver = is_driver])
              EXCEPT !.returned = ListClientsRows(clients, work_orders, role, username,
                                                  hipaa_certified, is_driver)]
  /\ audit_logs' = audit_db(audit_logs, "list_clients",
                            to_lowercase(unwrap_or(role, "admin")), "unknown")
  /\ UNCHANGED <<inventory_items, work_orders, delivery_events, clients, audit_tasks,
                 transactions>>

\* ---------------------------------------------------------------- field audits (commands module)
\* log_field: spawns one audit_change task when the two values differ.
log_field(event, role, actor, entity, entity_id, field, old_val, new_val) ==
  IF old_val /= new_val
  THEN <<AuditRow(event, role, actor, Some(entity), Some(entity_id), Some(field),
                  old_val, new_val)>>
  ELSE <<>>

\* The log_field calls of one update, in source order; diffs is a sequence of
\* <<field, old_val, new_val>>.
RECURSIVE LogFields(_, _, _, _, _, _)
LogFields(event, role, actor, entity, entity_id, diffs) ==
  IF diffs = <<>> THEN <<>>
  ELSE log_field(event, role, actor, entity, entity_id,
                 Head(diffs)[1], Head(diffs)[2], Head(diffs)[3])
       \o LogFields(event, role, actor, entity, entity_id, Tail(diffs))

\* update_inventory_item (commands/inventory.rs).  The columns category,
\* reorder_threshold, reorder_amount and notes are left out of the model.
commands_update_inventory_item(input, role, actor) ==
  LET role_val == unwrap_or(role, "unknown")
      actor_val == unwrap_or(actor, "unknown")
      id == input.id
      found == id \in 1..Len(inventory_items)
      existing == found /\ ~inventory_items[id].is_deleted
      prev == inventory_items[id]
      diffs == <<
        <<"name", Some(prev.name), Some(input.name)>>,
        <<"quantity_on_hand", Some(f64_to_string(prev.quantity_on_hand)),
                              Some(f64_to_string(input.quantity_on_hand))>>,
        <<"unit", Some(prev.unit), Some(input.unit)>> >>
  IN /\ audit_logs' = audit_db(audit_logs, "update_inventory_item", role_val, actor_val)
     /\ inventory_items' =
          IF found
          THEN [inventory_items EXCEPT ![id].name = input.name, ![id].unit = input.unit,
                                       ![id].quantity_on_hand = input.quantity_on_hand]
          ELSE inventory_items
     /\ audit_tasks' =
          IF existing
          THEN audit_tasks \o LogFields("update_inventory_item", role_val, actor_val,
                                        "inventory_items", id, diffs)
          ELSE audit_tasks
     /\ last' = Call("commands::update_inventory_item", "ok", [NoArgs EXCEPT !.id = id])
     /\ UNCHANGED <<work_orders, delivery_events, clients, transactions>>

\* update_client (commands/clients.rs), on the columns the model keeps.
commands_update_client(input, role, actor) ==
  LET approval_status == unwrap_or(input.approval_status, "pending")
      role_val == unwrap_or(role, "unknown")
      actor_val == unwrap_or(actor, "unknown")
      first_name == trim(unwrap_or(input.first_name, ""))
      last_name == trim(unwrap_or(input.last_name, ""))
      name == FullName(first_name, last_name)
      id == input.id
      found == id \in 1..Len(clients)
      existing == found /\ ~clients[id].is_deleted
      prev == clients[id]
      valid == ~(first_name = "" /\ last_name = "")
      diffs == <<
        <<"name", Some(prev.name), Some(name)>>,
        <<"first_name", prev.first_name, input.first_name>>,
        <<"last_name", prev.last_name, input.last_name>>,
        <<"physical_address_line1", Some(prev.physical_address_line1),
                                    Some(input.physical_address_line1)>>,
        <<"physical_address_line2", prev.physical_address_line2,
                                    input.physical_address_line2>>,
        <<"physical_address_city", Some(prev.physical_address_city),
                                   Some(input.physical_address_city)>>,
        <<"physical_address_state", Some(prev.physical_address_state),
                                    Some(input.physical_address_state)>>,
        <<"physical_address_postal_code", Some(prev.physical_address_postal_code),
                                          Some(input.physical_address_postal_code)>>,
        <<"mailing_address_line1", prev.mailing_address_line1,
                                   input.mailing_address_line1>>,
        <<"mailing_address_line2", prev.mailing_address_line2,
                                   input.mailing_address_line2>>,
        <<"mailing_address_city", prev.mailing_address_city,
                                  input.mailing_address_city>>,
        <<"mailing_address_state", prev.mailing_address_state,
                                   input.mailing_address_state>>,
        <<"mailing_address_postal_code", prev.mailing_address_postal_code,
                                         input.mailing_address_postal_code>>,
        <<"telephone", prev.telephone, input.telephone>>,
        <<"email", prev.email, input.email>>,
        <<"approval_status", Some(prev.approval_status), Some(approval_status)>>,
        <<"gate_combo", prev.gate_combo, input.gate_combo>>,
        <<"notes", prev.notes, input.notes>> >>
  IN /\ audit_logs' = audit_db(audit_logs, "update_client", role_val, actor_val)
     /\ clients' =
          IF valid /\ found
          THEN [clients EXCEPT ![id] =
                  [StoredClient(input, name, first_name, last_name)
                     EXCEPT !.is_deleted = prev.is_deleted]]
          ELSE clients
     /\ audit_tasks' =
          IF valid /\ existing
          THEN audit_tasks \o LogFields("update_client", role_val, actor_val,
                                        "clients", id, diffs)
          ELSE audit_tasks
     /\ last' = Call("commands::update_client",
                     IF valid THEN "ok" ELSE "validation", [NoArgs EXCEPT !.id = id])
     /\ UNCHANGED <<inventory_items, work_orders, delivery_events, transactions>>

\* One spawned audit_change task runs: tasks complete in any order.
run_audit_task(k) ==
  /\ k \in 1..Len(audit_tasks)
  /\ audit_logs' = InsertAudit(audit_logs, audit_tasks[k])
  /\ audit_tasks' = [j \in 1..(Len(audit_tasks) - 1) |->
                       IF j < k THEN audit_tasks[j] ELSE audit_tasks[j + 1]]
  /\ UNCHANGED <<inventory_items, work_orders, delivery_events, last, clients,
                 transactions>>

\* ---------------------------------------------------------------- concurrent transactions
\* create_work_order and update_work_order_status (main.rs) as they run on
\* separate pool connections.  The committed tables are the state variables;
\* a transaction works on its own copy and publishes it at COMMIT.  SQLite
\* admits one writer: a transaction takes the write lock at its first write
\* statement and holds it until it commits or rolls back; a transaction that
\* read before writing may take the lock only if nothing was committed since
\* its read, and fails with the busy error otherwise.
WriteLockHeld(txs, t) ==
  \E u \in 1..Len(txs) : u /= t /\ txs[u].pc \in {"body", "commit"}

\* A store without the single-writer rule: any transaction may start writing.
MayWriteUnlocked(txs, t) == TRUE

\* The transaction may take the write lock now.
MayWrite(txs, t) == ~WriteLockHeld(txs, t)

NoStore == [inventory_items |-> <<>>, work_orders |-> <<>>, delivery_events |-> <<>>]

\* current_status is the status the call read (draft for a create, which passes
\* "draft" to the ledger as the previous status).
NewTransaction(op, input, role, pc, result) ==
  [op |-> op, input |-> input, role |-> role, pc |-> pc, result |-> result,
   current_status |-> "draft", snapshot |-> None, base |-> NoStore, local |-> NoStore]

\* The call has returned: its connection goes back to the pool.
Finished(tx, result) ==
  [tx EXCEPT !.pc = "done", !.result = result, !.snapshot = None,
             !.base = NoStore, !.local = NoStore]

Returned(tx) ==
  Call(tx.op, tx.result,
       IF tx.op = "create_work_order"
       THEN [NoArgs EXCEPT !.role = tx.role, !.status = tx.input.status,
                           !.cords = tx.input.delivery_size_cords]
       ELSE [NoArgs EXCEPT !.id = tx.input.work_order_id, !.role = tx.role,
                           !.is_driver = tx.input.is_driver,
                           !.status = tx.input.status, !.mileage = tx.input.mileage])

\* pool.begin() of create_work_order, its role gate and its audit_db call.
begin_create_work_order(input, role) ==
  LET role_val == to_lowercase(unwrap_or(role, "admin"))
      tx == IF MayCreateWorkOrder(role_val)
            THEN NewTransaction("create_work_order", input, role, "write", "pending")
            ELSE NewTransaction("create_work_order", input, role, "done", "forbidden")
  IN /\ transactions' = Append(transactions, tx)
     /\ audit_logs' = IF MayCreateWorkOrder(role_val)
                      THEN audit_db(audit_logs, "create_work_order", role_val, "unknown")
                      ELSE audit_logs
     /\ last' = IF tx.pc = "done" THEN Returned(tx) ELSE last
     /\ UNCHANGED <<inventory_items, work_orders, delivery_events, clients, audit_tasks>>

\* The audit_db call and pool.begin() of update_work_order_status.
begin_update_work_order_status(input, role) ==
  /\ transactions' = Append(transactions,
       NewTransaction("update_work_order_status", input, role, "select", "pending"))
  /\ audit_logs' = audit_db(audit_logs, "update_work_order_status",
                            to_lowercase(unwrap_or(role, "admin")), "unknown")
  /\ UNCHANGED <<inventory_items, work_orders, delivery_events, last, clients,
                 audit_tasks>>

\* SELECT status, delivery_size_cords of update_work_order_status, and the
\* checks made on what it read: the transaction's read snapshot starts here.
tx_select(t) ==
  LET tx == transactions[t]
      r == UpdateWorkOrderStatusTx(Store, tx.input, tx.role)
      early == r.result \in {"not_found", "validation", "forbidden"}
      next == IF early
              THEN [Finished(tx, r.result) EXCEPT !.current_status =
                      IF r.result = "not_found" THEN @
                      ELSE work_orders[tx.input.work_order_id].status]
              ELSE [tx EXCEPT !.pc = "write", !.snapshot = Some(Store),
                              !.current_status = work_orders[tx.input.work_order_id].status]
  IN /\ tx.pc = "select"
     /\ transactions' = [transactions EXCEPT ![t] = next]
     /\ last' = IF early THEN Returned(next) ELSE last
     /\ UNCHANGED <<inventory_items, work_orders, delivery_events, clients, audit_logs,
                    audit_tasks>>

\* The first write statement (INSERT INTO work_orders / UPDATE work_orders):
\* it takes the write lock, or fails busy when the snapshot is stale.
tx_write(t) ==
  LET tx == transactions[t]
      stale == IsSome(tx.snapshot) /\ tx.snapshot[1] /= Store
      next == IF stale THEN Finished(tx, "busy")
              ELSE [tx EXCEPT !.pc = "body", !.base = Store]
  IN /\ tx.pc = "write"
     /\ MayWrite(transactions, t)
     /\ transactions' = [transactions EXCEPT ![t] = next]
     /\ last' = IF stale THEN Returned(next) ELSE last
     /\ UNCHANGED <<inventory_items, work_orders, delivery_events, clients, audit_logs,
                    audit_tasks>>

\* The first write statement gives up waiting for the lock (busy timeout).
tx_busy(t) ==
  LET tx == transactions[t]
  IN /\ tx.pc = "write"
     /\ WriteLockHeld(transactions, t)
     /\ transactions' = [transactions EXCEPT ![t] = Finished(tx, "busy")]
     /\ last' = Returned(Finished(tx, "busy"))
     /\ UNCHANGED <<inventory_items, work_orders, delivery_events, clients, audit_logs,
                    audit_tasks>>

\* The statements between the first write and COMMIT, on the transaction's
\* copy: the row write, the ledger (which reads the stock row inside the
\* transaction) and the delivery event.  An Err drops the transaction.
tx_body(t) ==
  LET tx == transactions[t]
      r == IF tx.op = "create_work_order"
           THEN CreateWorkOrderTx(tx.base, tx.input, tx.role)
           ELSE UpdateWorkOrderStatusTx(tx.base, tx.input, tx.role)
      next == IF r.result /= "ok" THEN Finished(tx, r.result)
              ELSE [tx EXCEPT !.pc = "commit", !.local = r.store]
  IN /\ tx.pc = "body"
     /\ transactions' = [transactions EXCEPT ![t] = next]
     /\ last' = IF r.result /= "ok" THEN Returned(next) ELSE last
     /\ UNCHANGED <<inventory_items, work_orders, delivery_events, clients, audit_logs,
                    audit_tasks>>

\* tx.commit(): the transaction's copy becomes the committed tables.
tx_commit(t) ==
  LET tx == transactions[t]
  IN /\ tx.pc = "commit"
     /\ inventory_items' = tx.local.inventory_items
     /\ work_orders' = tx.local.work_orders
     /\ delivery_events' = tx.local.delivery_events
     /\ transactions' = [transactions EXCEPT ![t] = Finished(tx, "ok")]
     /\ last' = [Returned(Finished(tx, "ok")) EXCEPT !.args.id =
                   IF tx.op = "create_work_order" THEN Len(tx.local.work_orders) ELSE @]
     /\ UNCHANGED <<clients, audit_logs, audit_tasks>>

\* ---------------------------------------------------------------- inputs
ItemKinds == {<<"Firewood", "Cords">>, <<"Gloves", "each">>}
OnHandInputs == 0..MaxQty
CordInputs == {None} \cup {Some(q) : q \in 1..MaxCords}
Mileage12 == Some(12)
MileageInputs == {None, Mileage12}
ScheduledDate == Some("2025-01-15")

\* The client details copied onto a work order.
GateCombo == Some("4321")
Notes == Some("dog in yard")
Telephone == Some("555-0100")
ClientFields ==
  [client_id : {1}, physical_address_line1 : {"1 Elm St"}, physical_address_city : {"Springfield"},
   physical_address_state : {"OR"}, physical_address_postal_code : {"97477"}]

WorkOrderInputs(statuses, cords, dates) ==
  {a @@ w : a \in ClientFields,
            w \in [status : statuses, delivery_size_cords : cords,
                   pickup_quantity_cords : {None}, mileage : {None},
                   scheduled_date : dates, assignees_json : {None},
                   paired_order_id : {None}, gate_combo : {GateCombo},
                   notes : {Notes}, telephone : {Telephone}]}

StatusInputs(ids, statuses, drivers) ==
  [work_order_id : ids, status : statuses, mileage : MileageInputs, is_driver : drivers]

\* ---------------------------------------------------------------- Spec: stock and ledger
\* The main.rs commands that write stock: the three inventory commands and the
\* two work-order commands, called by an admin.
LedgerStatuses == {None, Some("scheduled"), Some("completed"), Some("cancelled")}

Init ==
  /\ inventory_items = <<>>
  /\ work_orders = <<>>
  /\ delivery_events = <<>>
  /\ last = NoCall
  /\ clients = <<>>
  /\ audit_logs = Unobserved
  /\ audit_tasks = <<>>
  /\ transactions = <<>>

Next ==
  \/ /\ Len(inventory_items) < MaxItems
     /\ \E k \in ItemKinds, q \in OnHandInputs : create_inventory_item(k[1], k[2], q)
  \/ \E id \in 1..MaxItems, k \in ItemKinds, q \in OnHandInputs :
       update_inventory_item(id, k[1], k[2], q)
  \/ \E id \in 1..MaxItems : delete_inventory_item(id)
  \/ /\ Len(work_orders) < MaxOrders
     /\ \E input \in WorkOrderInputs(LedgerStatuses, CordInputs, {ScheduledDate}) :
          create_work_order(input, None)
  \/ \E input \in StatusInputs(1..MaxOrders, LedgerStatuses, {None}) :
       update_work_order_status(input, None)

Spec == Init /\ [][Next]_vars

\* ---------------------------------------------------------------- SpecScenario: reserve, then complete
\* One stock row, never edited; an admin creates orders and moves them.
ScenarioA == [on_hand |-> 10, cords |-> 4, mileage |-> 12]

WoodItem(quantity_on_hand, reserved_quantity) ==
  [name |-> "Firewood", unit |-> "Cords", quantity_on_hand |-> quantity_on_hand,
   reserved_quantity |-> reserved_quantity, is_deleted |-> FALSE]

ScenarioStatuses ==
  {None, Some("scheduled"), Some("in_progress"), Some("completed"), Some("cancelled")}

InitScenario ==
  /\ inventory_items \in {<<WoodItem(h, 0)>> : h \in {MaxQty, ScenarioA.on_hand}}
  /\ work_orders = <<>>
  /\ delivery_events = <<>>
  /\ last = NoCall
  /\ clients = <<>>
  /\ audit_logs = Unobserved
  /\ audit_tasks = <<>>
  /\ transactions = <<>>

NextScenario ==
  \/ /\ Len(work_orders) < MaxOrders
     /\ \E input \in WorkOrderInputs(ScenarioStatuses,
                                     CordInputs \cup {Some(ScenarioA.cords)}, {None}) :
          create_work_order(input, None)
  \/ \E input \in [work_order_id : 1..MaxOrders, status : ScenarioStatuses,
                   mileage : {None, Some(ScenarioA.mileage)}, is_driver : {None}] :
       update_work_order_status(input, None)

SpecScenario == InitScenario /\ [][NextScenario]_vars

\* ---------------------------------------------------------------- SpecLedger: the ledger called directly
\* adjust_inventory_for_transition_tx applied once to a stock row, for every
\* pair of statuses and every quantity, in both modules.
ledger_call(previous_status, next_status, delivery_size_cords) ==
  LET r == adjust_inventory_for_transition_tx(
             inventory_items, previous_status, next_status, delivery_size_cords)
  IN /\ last.op = "none"
     /\ inventory_items' = r.items
     /\ last' = Call("adjust_inventory_for_transition_tx", r.err,
                     [NoArgs EXCEPT !.previous_status = Some(previous_status),
                                    !.status = Some(next_status),
                                    !.cords = Some(delivery_size_cords)])
     /\ UNCHANGED <<work_orders, delivery_events, clients, audit_logs, audit_tasks,
                    transactions>>

commands_ledger_call(previous_status, next_status, delivery_size_cords) ==
  LET r == commands_adjust_inventory_for_transition_tx(
             inventory_items, previous_status, next_status, delivery_size_cords)
  IN /\ last.op = "none"
     /\ inventory_items' = r.items
     /\ last' = Call("commands::adjust_inventory_for_transition_tx", r.err,
                     [NoArgs EXCEPT !.previous_status = Some(previous_status),
                                    !.status = Some(next_status),
                                    !.cords = Some(delivery_size_cords)])
     /\ UNCHANGED <<work_orders, delivery_events, clients, audit_logs, audit_tasks,
                    transactions>>

Statuses ==
  {"draft", "scheduled", "in_progress", "completed", "cancelled", "delivered", "issue"}

InitLedger ==
  /\ inventory_items \in
       {<<>>} \cup {<<WoodItem(hr[1], hr[2])>> :
                       hr \in {x \in (0..MaxQty) \X (0..MaxQty) : x[2] <= x[1]}}
  /\ work_orders = <<>>
  /\ delivery_events = <<>>
  /\ last = NoCall
  /\ clients = <<>>
  /\ audit_logs = Unobserved
  /\ audit_tasks = <<>>
  /\ transactions = <<>>

NextLedger ==
  \/ \E p \in Statuses, n \in Statuses, q \in 0..MaxCords : ledger_call(p, n, q)
  \/ \E p \in Statuses, n \in Statuses, q \in 0..MaxCords : commands_ledger_call(p, n, q)

SpecLedger == InitLedger /\ [][NextLedger]_vars

\* ---------------------------------------------------------------- SpecGate: roles and status gates
\* One stock row; staff create orders, and actors of every role and driver
\* flag request every status, with and without mileage.
GateRoles == {None, Some("staff"), Some("volunteer"), Some("Volunteer")}
GateStatuses == {None} \cup {Some(st) : st \in Statuses \cup {"Completed", "bogus"}}
DriverFlags == {None, Some(TRUE), Some(FALSE)}

InitGate ==
  /\ inventory_items = <<WoodItem(MaxQty, 0)>>
  /\ work_orders = <<>>
  /\ delivery_events = <<>>
  /\ last = NoCall
  /\ clients = <<>>
  /\ audit_logs = Unobserved
  /\ audit_tasks = <<>>
  /\ transactions = <<>>

NextGate ==
  \/ /\ Len(work_orders) < MaxGateOrders
     /\ \E input \in WorkOrderInputs({None, Some("scheduled")}, {Some(1)}, {None}) :
          create_work_order(input, Some("staff"))
  \/ \E input \in StatusInputs(1..MaxGateOrders, GateStatuses, DriverFlags),
        role \in GateRoles :
       update_work_order_status(input, role)

SpecGate == InitGate /\ [][NextGate]_vars

\* ---------------------------------------------------------------- SpecCreate: who may create
\* create_work_order of both modules, called with every role.
CreateRoles ==
  {None, Some("admin"), Some("Admin"), Some("staff"), Some("STAFF"), Some("lead"),
   Some("driver"), Some("volunteer"), Some("other")}

CommandsWorkOrderInputs ==
  {a @@ w : a \in ClientFields,
            w \in [status : {None, Some("scheduled")},
                   delivery_size_cords : {None, Some(1)},
                   pickup_quantity_cords : {None}, mileage : {None},
                   scheduled_date : {None, ScheduledDate}, assignees_json : {None},
                   paired_order_id : {None, Some(0), Some(1)},
                   gate_combo : {GateCombo}, notes : {Notes},
                   telephone : {Telephone}]}

InitCreate ==
  /\ inventory_items \in {<<>>} \cup {<<WoodItem(h, 0)>> : h \in 0..MaxQty}
  /\ work_orders = <<>>
  /\ delivery_events = <<>>
  /\ last = NoCall
  /\ clients = <<>>
  /\ audit_logs = Unobserved
  /\ audit_tasks = <<>>
  /\ transactions = <<>>

NextCreate ==
  \/ /\ Len(work_orders) < MaxOrders
     /\ \E input \in WorkOrderInputs({None, Some("scheduled")}, {None, Some(1)},
                                     {None, ScheduledDate}),
           role \in CreateRoles :
          create_work_order(input, role)
  \/ /\ Len(work_orders) < MaxOrders
     /\ \E input \in CommandsWorkOrderInputs, role \in CreateRoles :
          commands_create_work_order(input, role)

SpecCreate == InitCreate /\ [][NextCreate]_vars

\* ---------------------------------------------------------------- SpecList: who sees what
\* Admins create orders with and without assignees and gate codes; actors of
\* every role, username, certification and driver flag list them.
ListRoles ==
  {None, Some("admin"), Some("staff"), Some("lead"), Some("Lead"), Some("volunteer"),
   Some("other")}
Usernames == {None, Some("Dana"), Some("lee")}
AssigneeInputs == {None, Some("[\"Dana\"]"), Some("[\"lee\",\"DANA\"]"), Some("Dana")}
HipaaFlags == {None, Some(TRUE)}

ListWorkOrderInputs ==
  {a @@ w : a \in ClientFields,
            w \in [status : {None}, delivery_size_cords : {None},
                   pickup_quantity_cords : {None}, mileage : {None},
                   scheduled_date : {None, ScheduledDate},
                   assignees_json : AssigneeInputs,
                   paired_order_id : {None}, gate_combo : {GateCombo},
                   notes : {Notes}, telephone : {Telephone}]}

InitList ==
  /\ inventory_items = <<>>
  /\ work_orders = <<>>
  /\ delivery_events = <<>>
  /\ last = NoCall
  /\ clients = <<>>
  /\ audit_logs = Unobserved
  /\ audit_tasks = <<>>
  /\ transactions = <<>>

NextList ==
  \/ /\ Len(work_orders) < MaxOrders
     /\ \E input \in ListWorkOrderInputs : create_work_order(input, None)
  \/ \E role \in ListRoles, username \in Usernames, hipaa_certified \in HipaaFlags,
        is_driver \in DriverFlags :
       list_work_orders(role, username, hipaa_certified, is_driver)
  \/ \E role \in ListRoles, username \in Usernames, hipaa_certified \in HipaaFlags,
        is_driver \in DriverFlags :
       commands_list_work_orders(role, username, hipaa_certified, is_driver)

SpecList == InitList /\ [][NextList]_vars

\* ---------------------------------------------------------------- SpecClients: listing clients
\* Clients are created and soft-deleted, an order is assigned, and actors of
\* every kind list the clients.
MaxClients == 2

ClientInputs ==
  [first_name : {Some("Ann"), Some("Bo"), None}, last_name : {Some("Lee")},
   physical_address_line1 : {"1 Elm St", "2 Oak Ave"},
   physical_address_line2 : {None, Some("Apt 2")},
   physical_address_city : {"Springfield"}, physical_address_state : {"OR"},
   physical_address_postal_code : {"97477"},
   mailing_address_line1 : {Some("PO Box 9")},
   mailing_address_line2 : {None},
   mailing_address_city : {Some("Eugene")}, mailing_address_state : {Some("OR")},
   mailing_address_postal_code : {Some("97401")},
   telephone : {Telephone}, email : {Some("ann@example.org")},
   approval_status : {None}, gate_combo : {GateCombo}, notes : {Notes}]

ClientListRoles == {None, Some("admin"), Some("lead"), Some("staff")}

InitClients ==
  /\ inventory_items = <<>>
  /\ work_orders = <<>>
  /\ delivery_events = <<>>
  /\ last = NoCall
  /\ clients = <<>>
  /\ audit_logs = Unobserved
  /\ audit_tasks = <<>>
  /\ transactions = <<>>

NextClients ==
  \/ /\ Len(clients) < MaxClients
     /\ \E input \in ClientInputs : create_client(input)
  \/ \E id \in 1..MaxClients : delete_client(id)
  \/ /\ Len(work_orders) < MaxGateOrders
     /\ \E input \in {i \in ListWorkOrderInputs :
                        /\ i.assignees_json \in {None, Some("[\"Dana\"]")}
                        /\ i.scheduled_date = None} :
          create_work_order(input, None)
  \/ \E role \in ClientListRoles, username \in {None, Some("dana")},
        hipaa_certified \in HipaaFlags, is_driver \in {None, Some(TRUE)} :
       list_clients(role, username, hipaa_certified, is_driver)

SpecClients == InitClients /\ [][NextClients]_vars

\* ---------------------------------------------------------------- SpecAudit: the audit table
\* Every command of the model with the audit table observed.  Each command
\* call inserts at least one audit row unless it is refused, so MaxAudit bounds
\* the number of calls in a behaviour.
MaxAudit == 3
MaxAuditEntities == 1

AuditClientInputs ==
  {c \in ClientInputs : c.physical_address_line1 = "1 Elm St"
                        /\ c.physical_address_line2 = None}

AssignmentInputs ==
  [work_order_id : 1..MaxAuditEntities,
   assignees_json : {None, Some("[]"), Some("[\"Dana\"]")}]

AuditStatusInputs ==
  [work_order_id : 1..MaxAuditEntities, status : {None, Some("scheduled")},
   mileage : MileageInputs, is_driver : {None, Some(TRUE)}]

Actor == Some("dana")

InitAudit ==
  /\ inventory_items = <<>>
  /\ work_orders = <<>>
  /\ delivery_events = <<>>
  /\ last = NoCall
  /\ clients = <<>>
  /\ audit_logs = Observed
  /\ audit_tasks = <<>>
  /\ transactions = <<>>

AuditRoom == Len(audit_logs.rows) < MaxAudit

NextAudit ==
  \/ /\ AuditRoom
     /\ Len(inventory_items) < MaxItems
     /\ \E q \in 1..MaxQty : create_inventory_item("Firewood", "Cords", q)
  \/ /\ AuditRoom
     /\ \E id \in 1..MaxItems, q \in 1..MaxQty :
          update_inventory_item(id, "Firewood", "Cords", q)
  \/ /\ AuditRoom
     /\ \E id \in 1..MaxItems, k \in ItemKinds, q \in 1..MaxQty :
          commands_update_inventory_item(
            [id |-> id, name |-> k[1], unit |-> k[2], quantity_on_hand |-> q], None, Actor)
  \/ /\ AuditRoom
     /\ \E id \in 1..MaxItems : delete_inventory_item(id)
  \/ /\ AuditRoom
     /\ Len(work_orders) < MaxAuditEntities
     /\ \E input \in WorkOrderInputs({None, Some("scheduled")}, {Some(1)}, {None}),
           role \in {None, Some("volunteer")} :
          create_work_order(input, role)
  \/ /\ AuditRoom
     /\ Len(work_orders) < MaxAuditEntities
     /\ \E input \in {i \in CommandsWorkOrderInputs :
                        i.paired_order_id = None /\ i.scheduled_date = None} :
          commands_create_work_order(input, None)
  \/ /\ AuditRoom
     /\ \E input \in StatusInputs(1..MaxAuditEntities, {None, Some("scheduled")}, {None}) :
          update_work_order_status(input, None)
  \/ /\ AuditRoom
     /\ \E input \in AuditStatusInputs : commands_update_work_order_status(input, None, Actor)
  \/ /\ AuditRoom
     /\ \E input \in AssignmentInputs, role \in {None, Some("staff")} :
          update_work_order_assignees(input, role)
  \/ /\ AuditRoom
     /\ \E input \in AssignmentInputs, role \in {None, Some("staff")} :
          commands_update_work_order_assignees(input, role, Actor)
  \/ /\ AuditRoom
     /\ Len(clients) < MaxAuditEntities
     /\ \E input \in AuditClientInputs : create_client(input)
  \/ /\ AuditRoom
     /\ \E input \in AuditClientInputs :
          commands_update_client([id |-> 1] @@ input, None, Actor)
  \/ /\ AuditRoom
     /\ \E id \in 1..MaxAuditEntities : delete_client(id)
  \/ /\ AuditRoom
     /\ list_clients(Some("lead"), None, None, None)
  \/ /\ AuditRoom
     /\ list_work_orders(Some("staff"), None, None, None)
  \/ /\ AuditRoom
     /\ commands_list_work_orders(Some("staff"), None, None, None)
  \/ \E k \in 1..MaxAudit : run_audit_task(k)

SpecAudit == InitAudit /\ [][NextAudit]_vars

\* ---------------------------------------------------------------- SpecConcurrent: overlapping transactions
\* One stock row; an admin's create_work_order and update_work_order_status
\* calls overlap in every way the single-writer store allows.
MaxTransactions == 3

InitConcurrent ==
  /\ inventory_items \in {<<WoodItem(h, 0)>> : h \in 1..MaxQty}
  /\ work_orders = <<>>
  /\ delivery_events = <<>>
  /\ last = NoCall
  /\ clients = <<>>
  /\ audit_logs = Unobserved
  /\ audit_tasks = <<>>
  /\ transactions = <<>>

NextConcurrent ==
  \/ /\ Len(transactions) < MaxTransactions
     /\ \E input \in WorkOrderInputs({None, Some("scheduled")},
                                     {Some(q) : q \in 1..MaxCords}, {None}) :
          begin_create_work_order(input, None)
  \/ /\ Len(transactions) < MaxTransactions
     /\ \E input \in [work_order_id : 1..MaxOrders, status : {Some("scheduled")},
                      mileage : {None}, is_driver : {None}] :
          begin_update_work_order_status(input, None)
  \/ \E t \in 1..Len(transactions) : tx_select(t)
  \/ \E t \in 1..Len(transactions) : tx_write(t)
  \/ \E t \in 1..Len(transactions) : tx_busy(t)
  \/ \E t \in 1..Len(transactions) : tx_body(t)
  \/ \E t \in 1..Len(transactions) : tx_commit(t)

SpecConcurrent == InitConcurrent /\ [][NextConcurrent]_vars

\* ---------------------------------------------------------------- SpecAssign: orders, events and assignees
\* Orders are created with and without a scheduled date and assignee list,
\* and their assignees are replaced, by callers of every kind.
AssigneeLists == {None, Some("[]"), Some("[\"Dana\"]")}

AssignWorkOrderInputs ==
  {[i EXCEPT !.assignees_json = a] :
     i \in WorkOrderInputs({None}, {None}, {None, ScheduledDate}), a \in AssigneeLists}

InitAssign ==
  /\ inventory_items = <<>>
  /\ work_orders = <<>>
  /\ delivery_events = <<>>
  /\ last = NoCall
  /\ clients = <<>>
  /\ audit_logs = Unobserved
  /\ audit_tasks = <<>>
  /\ transactions = <<>>

NextAssign ==
  \/ /\ Len(work_orders) < MaxOrders
     /\ \E input \in AssignWorkOrderInputs, role \in {None, Some("volunteer")} :
          create_work_order(input, role)
  \/ \E id \in 1..MaxOrders, a \in AssigneeLists,
        role \in {None, Some("Lead"), Some("staff")} :
       update_work_order_assignees([work_order_id |-> id, assignees_json |-> a], role)

SpecAssign == InitAssign /\ [][NextAssign]_vars

\* ---------------------------------------------------------------- SpecAuditFault: audit inserts that fail
\* One stock row; an admin and a volunteer create orders and request status
\* changes while the audit table comes and goes.
FaultInputs == WorkOrderInputs({None, Some("scheduled")}, {Some(q) : q \in 1..MaxCords}, {None})
FaultStatusInputs ==
  StatusInputs(1..MaxOrders, {None, Some("scheduled"), Some("completed"), Some("cancelled")},
               {None})
FaultRoles == {None, Some("volunteer")}

InitAuditFault ==
  /\ inventory_items = <<WoodItem(MaxQty, 0)>>
  /\ work_orders = <<>>
  /\ delivery_events = <<>>
  /\ last = NoCall
  /\ clients = <<>>
  /\ audit_logs = Unobserved
  /\ audit_tasks = <<>>
  /\ transactions = <<>>

NextAuditFault ==
  \/ audit_fault
  \/ /\ Len(work_orders) < MaxOrders
     /\ \E input \in FaultInputs, role \in FaultRoles :
          after_audit("create_work_order", create_work_order(input, role))
  \/ \E input \in FaultStatusInputs, role \in FaultRoles :
       after_audit("update_work_order_status", update_work_order_status(input, role))

SpecAuditFault == InitAuditFault /\ [][NextAuditFault]_vars

\* ---------------------------------------------------------------- SpecBinding: which stock row the ledger picks
\* Stock rows are created and soft-deleted while one order is created,
\* reserved, released and completed by an admin.
MaxBindingItems == 2

InitBinding ==
  /\ inventory_items = <<>>
  /\ work_orders = <<>>
  /\ delivery_events = <<>>
  /\ last = NoCall
  /\ clients = <<>>
  /\ audit_logs = Unobserved
  /\ audit_tasks = <<>>
  /\ transactions = <<>>

NextBinding ==
  \/ /\ Len(inventory_items) < MaxBindingItems
     /\ \E q \in 1..MaxQty : create_inventory_item("Firewood", "Cords", q)
  \/ \E id \in 1..MaxBindingItems : delete_inventory_item(id)
  \/ /\ Len(work_orders) < MaxGateOrders
     /\ \E input \in WorkOrderInputs({None, Some("scheduled")}, {Some(1)}, {None}) :
          create_work_order(input, None)
  \/ \E input \in StatusInputs(1..MaxGateOrders,
                               {Some("scheduled"), Some("completed"), Some("cancelled")},
                               {None}) :
       update_work_order_status(input, None)

SpecBinding == InitBinding /\ [][NextBinding]_vars

\* ================================================================ claims
Tables == <<inventory_items, work_orders, delivery_events>>

\* The order a call names, when it names one.
NamesOrder(call) == call.args.id \in 1..Len(work_orders)

\* ---------------------------------------------------------------- C1
\* C1 (as claimed): after any sequence of the inventory and work-order
\* commands every non-deleted inventory item has
\* 0 <= reserved_quantity <= quantity_on_hand.
C1_StockInvariant ==
  \A i \in 1..Len(inventory_items) :
    ~inventory_items[i].is_deleted =>
      /\ 0 <= inventory_items[i].reserved_quantity
      /\ inventory_items[i].reserved_quantity <= inventory_items[i].quantity_on_hand

\* ---------------------------------------------------------------- C2
\* The step is a call that would move an order from a non-reserving status
\* into scheduled or in_progress: a create with that initial status, or a
\* status update of an existing order that is not reserving.
C2_ReservingMove ==
  \/ /\ last'.op = "create_work_order"
     /\ last'.args.status \in {Some("scheduled"), Some("in_progress")}
  \/ /\ last'.op = "update_work_order_status"
     /\ NamesOrder(last')
     /\ to_lowercase(work_orders[last'.args.id].status) \notin reserve_states
     /\ last'.args.status \in {Some("scheduled"), Some("in_progress")}

C2_Quantity ==
  IF last'.op = "create_work_order" THEN unwrap_or(last'.args.cords, 0)
  ELSE unwrap_or(work_orders[last'.args.id].delivery_size_cords, 0)

\* C2 (as claimed): a reserving move with q > quantity_on_hand -
\* reserved_quantity fails and leaves stock, orders and delivery events as
\* they were.
C2_InsufficientFailsAndRollsBack ==
  [][(/\ C2_ReservingMove
      /\ TrackedItem(inventory_items) /= 0
      /\ C2_Quantity > inventory_items[TrackedItem(inventory_items)].quantity_on_hand
                       - inventory_items[TrackedItem(inventory_items)].reserved_quantity)
     => (last'.result /= "ok" /\ UNCHANGED Tables)]_vars

\* ---------------------------------------------------------------- C3
C3_Cords == unwrap_or(last.args.cords, 0)

\* The previous call created an order in a reserving status with a quantity
\* that fitted the availability of the tracked row, and this step is the
\* status update of that order to completed, with a mileage.
C3_ReservedThenCompleting ==
  /\ last.op = "create_work_order"
  /\ last.result = "ok"
  /\ last.args.status \in {Some("scheduled"), Some("in_progress")}
  /\ IsSome(last.before)
  /\ C3_Cords <= last.before[1].quantity_on_hand - last.before[1].reserved_quantity
  /\ last'.op = "update_work_order_status"
  /\ last'.args.id = last.args.id
  /\ last'.args.status = Some("completed")
  /\ IsSome(last'.args.mileage)

\* C3: reserving q and then completing: after the create the tracked row has
\* reserved = prior + q and on_hand unchanged; the completion succeeds and
\* leaves reserved = prior and on_hand = prior on_hand - q.  With on_hand=10,
\* reserved=0, q=4 this is 4/10, then 0/6.
C3_ReserveThenComplete ==
  [][C3_ReservedThenCompleting =>
       /\ TrackedQuantities(inventory_items) =
            Some([quantity_on_hand |-> last.before[1].quantity_on_hand,
                  reserved_quantity |-> last.before[1].reserved_quantity + C3_Cords])
       /\ last'.result = "ok"
       /\ TrackedQuantities(inventory_items') =
            Some([quantity_on_hand |-> last.before[1].quantity_on_hand - C3_Cords,
                  reserved_quantity |-> last.before[1].reserved_quantity])]_vars

\* Scenario A has run: order 1 of 4 cords, reserved against 10 on hand, was
\* completed with mileage 12, and the row now holds 6 on hand, 0 reserved.
C3_Witness ==
  /\ last.op = "update_work_order_status"
  /\ last.result = "ok"
  /\ last.args.id = 1
  /\ last.args.status = Some("completed")
  /\ last.args.mileage = Some(ScenarioA.mileage)
  /\ last.before = Some([quantity_on_hand |-> ScenarioA.on_hand,
                         reserved_quantity |-> ScenarioA.cords])
  /\ Len(work_orders) = 1
  /\ work_orders[1].delivery_size_cords = Some(ScenarioA.cords)
  /\ work_orders[1].status = "completed"
  /\ TrackedQuantities(inventory_items) =
       Some([quantity_on_hand |-> 6, reserved_quantity |-> 0])

\* ---------------------------------------------------------------- C4
\* C4 (as claimed): a ledger call with previous status = next status leaves
\* quantity_on_hand and reserved_quantity of the tracked row unchanged, for
\* every status (completed included) and every quantity.
C4_SameStatusIsNoOp ==
  [][(/\ last'.op \in {"adjust_inventory_for_transition_tx",
                       "commands::adjust_inventory_for_transition_tx"}
      /\ last'.args.previous_status = last'.args.status)
     => UNCHANGED inventory_items]_vars

\* ---------------------------------------------------------------- C5
\* C5 (as claimed): every stored work order's status is one of the seven
\* statuses.
C5_StatusInDomain ==
  \A i \in 1..Len(work_orders) : work_orders[i].status \in Statuses

\* ---------------------------------------------------------------- C6
C6_IsCreate == last'.op \in {"create_work_order", "commands::create_work_order"}

C6_SuppliedRoleAllowed ==
  to_lowercase(last'.args.role[1]) \in {"admin", "staff"}

\* C6: a create_work_order call that is given a role succeeds only if the
\* role, compared case-insensitively, is admin or staff; with any other role
\* it returns the role error and no table changes (no order, no delivery
\* event, no pairing back-reference, no stock change).
C6_CreateRoleGate ==
  [][(C6_IsCreate /\ IsSome(last'.args.role)) =>
       /\ last'.result = "ok" => C6_SuppliedRoleAllowed
       /\ ~C6_SuppliedRoleAllowed => (last'.result = "forbidden" /\ UNCHANGED Tables)]_vars

\* A lead was refused while an order that could have been paired exists.
C6_Witness ==
  /\ last.op = "commands::create_work_order"
  /\ last.args.role = Some("lead")
  /\ last.result = "forbidden"
  /\ Len(work_orders) = 1
  /\ Len(delivery_events) = 1

\* ---------------------------------------------------------------- C7
C7_DriverCapable == unwrap_or(last'.args.is_driver, FALSE)

\* C7: update_work_order_status commits nothing for a volunteer without the
\* driver flag; with the driver flag and a status supplied it commits only
\* the targets in_progress, delivered and issue; a rejected call leaves every
\* order (status, mileage) and the stock rows unchanged.
C7_StatusRoleGate ==
  [][last'.op = "update_work_order_status" =>
       /\ (IsSome(last'.args.role) /\ to_lowercase(last'.args.role[1]) = "volunteer"
           /\ ~C7_DriverCapable) => last'.result /= "ok"
       /\ (C7_DriverCapable /\ IsSome(last'.args.status) /\ last'.result = "ok")
            => last'.args.status[1] \in {"in_progress", "delivered", "issue"}
       /\ last'.result /= "ok" => UNCHANGED <<work_orders, inventory_items>>]_vars

\* A volunteer without the driver flag asked to start a scheduled order and
\* was refused.
C7_Witness ==
  /\ last.op = "update_work_order_status"
  /\ last.args.role = Some("volunteer")
  /\ last.args.is_driver /= Some(TRUE)
  /\ last.args.status = Some("in_progress")
  /\ last.result = "forbidden"
  /\ NamesOrder(last)
  /\ work_orders[last.args.id].status = "scheduled"

\* ---------------------------------------------------------------- C8
\* C8 (as claimed): a status update by a caller whose driver flag is unset
\* leaves every stored mileage unchanged.
C8_MileageOnlyByDrivers ==
  [][(last'.op = "update_work_order_status" /\ ~unwrap_or(last'.args.is_driver, FALSE))
     => \A i \in 1..Len(work_orders) : work_orders'[i].mileage = work_orders[i].mileage]_vars

\* ---------------------------------------------------------------- C9
\* C9 (as claimed): a status update that asks for completed or delivered and
\* carries no mileage fails and changes neither the orders nor the stock.
C9_TerminalNeedsMileage ==
  [][(/\ last'.op = "update_work_order_status"
      /\ NamesOrder(last')
      /\ last'.args.status \in {Some("completed"), Some("delivered")}
      /\ work_orders[last'.args.id].status /= last'.args.status[1]
      /\ ~IsSome(last'.args.mileage))
     => (last'.result /= "ok" /\ UNCHANGED <<work_orders, inventory_items>>)]_vars

\* ---------------------------------------------------------------- C10
\* The step is a work-order call that reaches the ledger with a quantity > 0:
\* a create that passes the role gate, or a status update of an existing
\* order that passes its gates and changes the status.
C10_LedgerInvoked ==
  \/ /\ last'.op = "create_work_order"
     /\ last'.result /= "forbidden"
     /\ unwrap_or(last'.args.cords, 0) > 0
  \/ /\ last'.op = "update_work_order_status"
     /\ last'.result \notin {"not_found", "validation", "forbidden"}
     /\ NamesOrder(last')
     /\ IsSome(last'.args.status)
     /\ last'.args.status[1] /= work_orders[last'.args.id].status
     /\ unwrap_or(work_orders[last'.args.id].delivery_size_cords, 0) > 0

\* C10: with no non-deleted item matching the wood/cord heuristic, every call
\* that reaches the ledger with a quantity > 0 fails with the no-tracked-stock
\* error and nothing it wrote is kept, whatever the statuses involved.
C10_NoTrackedStockFails ==
  [][(C10_LedgerInvoked /\ TrackedItem(inventory_items) = 0)
     => (last'.result = "no_stock" /\ UNCHANGED Tables)]_vars

\* A draft order with cords could not be cancelled because the stock row is gone.
C10_Witness ==
  /\ last.op = "update_work_order_status"
  /\ last.result = "no_stock"
  /\ last.args.status = Some("cancelled")
  /\ NamesOrder(last)
  /\ work_orders[last.args.id].status = "draft"
  /\ TrackedItem(inventory_items) = 0

\* ---------------------------------------------------------------- C11
C11_IsList == last.op \in {"list_work_orders", "commands::list_work_orders"}

C11_RoleVal == to_lowercase(unwrap_or(last.args.role, "admin"))

C11_DriverCapable == unwrap_or(last.args.is_driver, FALSE)

\* The non-deleted orders whose assignee list contains the caller's username,
\* compared case-insensitively.
C11_AssignedIds ==
  {i \in 1..Len(work_orders) :
     /\ ~work_orders[i].is_deleted
     /\ IsAssigned(work_orders[i].assignees_json,
                   to_lowercase(unwrap_or(last.args.username, "")))}

C11_ReturnedIds == {last.returned[k].id : k \in 1..Len(last.returned)}

\* C11 (as claimed): list_work_orders with the driver flag set returns exactly
\* the non-deleted orders assigned to the caller, each with gate_combo and
\* notes absent.
C11_DriverListing ==
  (C11_IsList /\ C11_DriverCapable) =>
     /\ C11_ReturnedIds = C11_AssignedIds
     /\ \A k \in 1..Len(last.returned) :
          last.returned[k].gate_combo = None /\ last.returned[k].notes = None

\* ---------------------------------------------------------------- C12
\* C12 (as claimed): a volunteer without the driver flag is returned only the
\* orders assigned to them, each with telephone, gate_combo, notes and the
\* physical address fields absent.
C12_VolunteerListing ==
  (C11_IsList /\ C11_RoleVal = "volunteer" /\ ~C11_DriverCapable) =>
     /\ C11_ReturnedIds \subseteq C11_AssignedIds
     /\ \A k \in 1..Len(last.returned) :
          /\ last.returned[k].telephone = None
          /\ last.returned[k].gate_combo = None
          /\ last.returned[k].notes = None
          /\ last.returned[k].physical_address_line1 = None
          /\ last.returned[k].physical_address_city = None
          /\ last.returned[k].physical_address_state = None
          /\ last.returned[k].physical_address_postal_code = None

\* ---------------------------------------------------------------- C13
C13_FullAccess ==
  C11_RoleVal = "admin"
  \/ (C11_RoleVal = "lead" /\ unwrap_or(last.args.hipaa_certified, FALSE))

\* C13 (as claimed): an actor that is not driver-capable, not a volunteer and
\* has no full access is returned rows with telephone and gate_combo absent
\* and every physical address field "Hidden"; admin and certified lead are
\* returned the stored values.
C13_MaskedListing ==
  (C11_IsList /\ ~C11_DriverCapable /\ C11_RoleVal /= "volunteer") =>
     \A k \in 1..Len(last.returned) :
       IF C13_FullAccess
       THEN last.returned[k] = WorkOrderRow(work_orders, last.returned[k].id)
       ELSE /\ last.returned[k].telephone = None
            /\ last.returned[k].gate_combo = None
            /\ last.returned[k].physical_address_line1 = Some("Hidden")
            /\ last.returned[k].physical_address_city = Some("Hidden")
            /\ last.returned[k].physical_address_state = Some("Hidden")
            /\ last.returned[k].physical_address_postal_code = Some("Hidden")

\* ---------------------------------------------------------------- C14
C14_NotDeleted == {i \in 1..Len(clients) : ~clients[i].is_deleted}

C14_Plain == last.op = "list_clients" /\ ~C11_DriverCapable

\* C14 (as claimed): list_clients for a lead without HIPAA certification
\* returns every non-deleted client with telephone and email absent and every
\* address field (physical line1, line2, city, state, postal code and the
\* mailing address fields) "Hidden"; for admin it returns the stored values.
C14_LeadSeesHidden ==
  /\ (C14_Plain /\ C11_RoleVal = "lead"
      /\ ~unwrap_or(last.args.hipaa_certified, FALSE)) =>
       /\ C11_ReturnedIds = C14_NotDeleted
       /\ \A k \in 1..Len(last.returned) :
            /\ last.returned[k].telephone = None
            /\ last.returned[k].email = None
            /\ last.returned[k].physical_address_line1 = "Hidden"
            /\ last.returned[k].physical_address_line2 = Some("Hidden")
            /\ last.returned[k].physical_address_city = "Hidden"
            /\ last.returned[k].physical_address_state = "Hidden"
            /\ last.returned[k].physical_address_postal_code = "Hidden"
            /\ last.returned[k].mailing_address_line1 = Some("Hidden")
            /\ last.returned[k].mailing_address_line2 = Some("Hidden")
            /\ last.returned[k].mailing_address_city = Some("Hidden")
            /\ last.returned[k].mailing_address_state = Some("Hidden")
            /\ last.returned[k].mailing_address_postal_code = Some("Hidden")
  /\ (C14_Plain /\ C11_RoleVal = "admin") =>
       /\ C11_ReturnedIds = C14_NotDeleted
       /\ \A k \in 1..Len(last.returned) :
            last.returned[k] = ClientRow(clients, last.returned[k].id)

\* ---------------------------------------------------------------- C15
\* C15 (as claimed): no field-level audit row has old_value equal to
\* new_value (both absent included).
C15_NoUnchangedFieldRow ==
  \A k \in 1..Len(audit_logs.rows) :
    IsSome(audit_logs.rows[k].field) =>
      audit_logs.rows[k].old_value /= audit_logs.rows[k].new_value

\* ---------------------------------------------------------------- C16
\* The step is a successful update_client or update_inventory_item call of the
\* commands module.
C16_IsUpdate ==
  /\ last'.op \in {"commands::update_inventory_item", "commands::update_client"}
  /\ last'.result = "ok"
  /\ Len(audit_logs'.rows) = Len(audit_logs.rows) + 1
  /\ audit_logs'.rows[Len(audit_logs'.rows)].field = None

C16_OfClients == last'.op = "commands::update_client"

C16_Found ==
  last'.args.id \in 1..Len(IF C16_OfClients THEN clients ELSE inventory_items)

\* The audited columns of a stored row as the texts an audit row holds.
C16_Text(row, of_clients) ==
  IF of_clients
  THEN [f \in (DOMAIN row) \ {"is_deleted"} |->
          IF f \in {"name", "physical_address_line1", "physical_address_city",
                    "physical_address_state", "physical_address_postal_code",
                    "approval_status"}
          THEN Some(row[f]) ELSE row[f]]
  ELSE [name |-> Some(row.name), unit |-> Some(row.unit),
        quantity_on_hand |-> Some(f64_to_string(row.quantity_on_hand))]

\* The (field, old, new) of every audited column whose stored value changed.
C16_Changed ==
  IF ~C16_Found THEN {}
  ELSE LET old == C16_Text(IF C16_OfClients THEN clients[last'.args.id]
                           ELSE inventory_items[last'.args.id], C16_OfClients)
           new == C16_Text(IF C16_OfClients THEN clients'[last'.args.id]
                           ELSE inventory_items'[last'.args.id], C16_OfClients)
       IN {[field |-> f, old_value |-> old[f], new_value |-> new[f]] :
             f \in {g \in DOMAIN old : old[g] /= new[g]}}

\* The audit_change tasks the step spawned.
C16_Spawned ==
  {audit_tasks'[k] : k \in (Len(audit_tasks) + 1)..Len(audit_tasks')}

\* C16 (as claimed): the field rows an update adds (its spawned audit_change
\* tasks, once run) are exactly the (field, old, new) of the columns whose
\* stored value changed, all with the same entity, entity_id and event.
C16_RowsEqualChanges ==
  [][C16_IsUpdate =>
       /\ {[field |-> t.field[1], old_value |-> t.old_value,
            new_value |-> t.new_value] : t \in C16_Spawned} = C16_Changed
       /\ \A t \in C16_Spawned :
            /\ t.entity = Some(IF C16_OfClients THEN "clients" ELSE "inventory_items")
            /\ t.entity_id = Some(last'.args.id)
            /\ t.event = (IF C16_OfClients THEN "update_client"
                          ELSE "update_inventory_item")]_vars

\* ---------------------------------------------------------------- C17
\* C17: audit_logs is append-only: in every step the rows already in the
\* table stay as they are, in place, and rows are only added after them.
C17_AppendOnly ==
  [][/\ Len(audit_logs'.rows) >= Len(audit_logs.rows)
     /\ \A k \in 1..Len(audit_logs.rows) : audit_logs'.rows[k] = audit_logs.rows[k]]_vars

\* Three commands and a spawned field audit have each left their row.
C17_Witness ==
  /\ Len(audit_logs.rows) > MaxAudit
  /\ audit_logs.rows[1].event = "create_inventory_item"
  /\ audit_logs.rows[2].event = "update_inventory_item"
  /\ IsSome(audit_logs.rows[Len(audit_logs.rows)].field)

\* ---------------------------------------------------------------- C18
C18_Quiet == \A t \in 1..Len(transactions) : transactions[t].pc = "done"

\* The call asked for a move from a non-reserving status into scheduled.
C18_Attempt(tx) ==
  /\ tx.input.status = Some("scheduled")
  /\ tx.result /= "not_found"
  /\ to_lowercase(tx.current_status) \notin reserve_states

\* The quantity of the order the call is about (the stored order of a status
\* update; orders are never removed and their quantity never changes).
C18_Cords(tx) ==
  IF tx.op = "create_work_order" THEN unwrap_or(tx.input.delivery_size_cords, 0)
  ELSE unwrap_or(work_orders[tx.input.work_order_id].delivery_size_cords, 0)

RECURSIVE C18_ReservedByOk(_)
C18_ReservedByOk(txs) ==
  IF txs = <<>> THEN 0
  ELSE (IF C18_Attempt(Head(txs)) /\ Head(txs).result = "ok"
        THEN C18_Cords(Head(txs)) ELSE 0) + C18_ReservedByOk(Tail(txs))

\* C18: once the overlapping calls have returned, reserved_quantity is the
\* initial 0 plus the quantities of exactly the reserving calls that returned
\* Ok, it does not exceed quantity_on_hand, and of two reserving calls whose
\* quantities together exceed the initial availability at most one succeeded.
C18_NoLostReservation ==
  C18_Quiet =>
    /\ inventory_items[1].reserved_quantity = C18_ReservedByOk(transactions)
    /\ inventory_items[1].reserved_quantity <= inventory_items[1].quantity_on_hand
    /\ \A t, u \in 1..Len(transactions) :
         (/\ t /= u
          /\ C18_Attempt(transactions[t]) /\ C18_Attempt(transactions[u])
          /\ C18_Cords(transactions[t]) + C18_Cords(transactions[u])
               > inventory_items[1].quantity_on_hand)
         => ~(transactions[t].result = "ok" /\ transactions[u].result = "ok")

\* A create and a status update overlapped, each reserving one of the two
\* cords on hand, and both returned Ok; a third reserving call found the
\* stock used up.
C18_Witness ==
  /\ C18_Quiet
  /\ Len(transactions) = MaxTransactions
  /\ inventory_items[1].reserved_quantity = MaxQty
  /\ \E t, u \in 1..Len(transactions) :
       /\ transactions[t].op = "create_work_order"
       /\ transactions[u].op = "update_work_order_status"
       /\ C18_Attempt(transactions[t]) /\ transactions[t].result = "ok"
       /\ C18_Attempt(transactions[u]) /\ transactions[u].result = "ok"

\* ---------------------------------------------------------------- C19
C19_LedgerCall ==
  last'.op \in {"create_work_order", "update_work_order_status",
                "commands::create_work_order"}

\* C19: quantity_on_hand and reserved_quantity of an existing inventory row
\* change only in a step of create_work_order or update_work_order_status
\* (whose ledger runs inside the command's transaction); every other
\* operation, update_inventory_item included, leaves both as they were.
C19_QuantitiesOnlyByLedger ==
  [][\A id \in 1..Len(inventory_items) :
       (\/ inventory_items'[id].quantity_on_hand /= inventory_items[id].quantity_on_hand
        \/ inventory_items'[id].reserved_quantity /= inventory_items[id].reserved_quantity)
       => C19_LedgerCall]_vars

\* ---------------------------------------------------------------- C20
C20_PairedCreate ==
  /\ last'.op = "commands::create_work_order"
  /\ IsSome(last'.args.paired_order_id)
  /\ last'.args.paired_order_id[1] \in 1..Len(work_orders)

\* C20: when create_work_order of the commands module succeeds with a
\* non-empty paired_order_id P that names an existing order, P's
\* paired_order_id is the new order's id and the new order's paired_order_id
\* is P; when the call fails, P's paired_order_id (with every other stored
\* order) is as it was before the call.
C20_PairingBackReference ==
  [][C20_PairedCreate =>
       LET P == last'.args.paired_order_id[1]
           id == last'.args.id
       IN IF last'.result = "ok"
          THEN /\ id = Len(work_orders) + 1
               /\ work_orders'[P].paired_order_id = Some(id)
               /\ work_orders'[id].paired_order_id = Some(P)
          ELSE /\ work_orders'[P].paired_order_id = work_orders[P].paired_order_id
               /\ work_orders' = work_orders]_vars

\* Order 2 was created paired with order 1, reserving stock, and the two
\* orders point at each other.
C20_Witness ==
  /\ last.op = "commands::create_work_order"
  /\ last.result = "ok"
  /\ last.args.paired_order_id = Some(1)
  /\ last.args.status = Some("scheduled")
  /\ Len(work_orders) = 2
  /\ work_orders[1].paired_order_id = Some(2)
  /\ work_orders[2].paired_order_id = Some(1)
\* ---------------------------------------------------------------- C21
C21_EventsOf(id) == {k \in 1..Len(delivery_events) : delivery_events[k].work_order_id = id}

C21_Linked ==
  \A id \in 1..Len(work_orders) :
    /\ Cardinality(C21_EventsOf(id)) = IF IsSome(work_orders[id].scheduled_date) THEN 1 ELSE 0
    /\ \A k \in C21_EventsOf(id) :
         unwrap_or(delivery_events[k].assigned_user_ids_json, "[]")
           = unwrap_or(work_orders[id].assignees_json, "[]")

C21_Refused ==
  last'.op = "update_work_order_assignees" /\ last'.result /= "ok"

\* C21: after any sequence of create_work_order and
\* update_work_order_assignees calls an order created with a scheduled_date
\* has exactly one linked delivery event and an order created without one has
\* none, each linked event carries the order's current assignee list (an
\* absent list counting as the empty one), and a refused assignee update
\* changes neither list.
C21_EventMirrorsAssignees ==
  /\ []C21_Linked
  /\ [][C21_Refused => UNCHANGED <<work_orders, delivery_events>>]_vars

\* An order scheduled with no assignees was given ["Dana"], and its one
\* event now carries ["Dana"] too.
C21_Witness ==
  /\ last.op = "update_work_order_assignees"
  /\ last.result = "ok"
  /\ last.args.id = 1
  /\ Len(work_orders) >= 1
  /\ work_orders[1].assignees_json = Some("[\"Dana\"]")
  /\ \E k \in 1..Len(delivery_events) :
       /\ delivery_events[k].work_order_id = 1
       /\ delivery_events[k].assigned_user_ids_json = Some("[\"Dana\"]")
\* ---------------------------------------------------------------- C22
C22_StockInRange ==
  \A i \in 1..Len(inventory_items) :
    /\ 0 <= inventory_items[i].reserved_quantity
    /\ inventory_items[i].reserved_quantity <= inventory_items[i].quantity_on_hand

\* The ledger call the step made took a clamping branch.
C22_StepClamps ==
  \/ /\ last'.op = "create_work_order"
     /\ last'.result = "ok"
     /\ ClampTaken(inventory_items, "draft", unwrap_or(last'.args.status, "draft"),
                   unwrap_or(last'.args.cords, 0))
  \/ /\ last'.op = "update_work_order_status"
     /\ last'.result = "ok"
     /\ work_orders'[last'.args.id].status /= work_orders[last'.args.id].status
     /\ ClampTaken(inventory_items, work_orders[last'.args.id].status,
                   work_orders'[last'.args.id].status,
                   unwrap_or(work_orders[last'.args.id].delivery_size_cords, 0))

\* C22: starting from a stock row with 0 <= reserved_quantity <=
\* quantity_on_hand, no create_work_order or update_work_order_status call
\* makes the ledger take a clamping branch (reserved < 0, on_hand < 0,
\* reserved > on_hand).
C22_ClampsUnreachable == [][C22_StockInRange => ~C22_StepClamps]_vars
\* ---------------------------------------------------------------- C23
C23_LedgerCall ==
  /\ last'.op = "adjust_inventory_for_transition_tx"
  /\ last'.result = "ok"
  /\ last'.args.cords[1] > 0
  /\ last'.args.previous_status /= last'.args.status

\* C23: a ledger call (main.rs) into completed from a different status with
\* q > 0 leaves quantity_on_hand at its previous value minus q and lowers
\* reserved_quantity by q exactly when the previous status was scheduled or
\* in_progress (leaving it unchanged otherwise); a ledger call into any other
\* status leaves quantity_on_hand unchanged.
C23_ConsumptionOnCompletion ==
  [][C23_LedgerCall =>
       LET q == last'.args.cords[1]
           before == inventory_items[1]
           after == inventory_items'[1]
       IN IF last'.args.status[1] = "completed"
          THEN /\ after.quantity_on_hand = before.quantity_on_hand - q
               /\ after.reserved_quantity =
                    IF last'.args.previous_status[1] \in reserve_states
                    THEN before.reserved_quantity - q
                    ELSE before.reserved_quantity
          ELSE after.quantity_on_hand = before.quantity_on_hand]_vars
\* ---------------------------------------------------------------- C24
C24_UpdateOfTerminal ==
  /\ last'.op = "update_work_order_status"
  /\ last'.args.id \in 1..Len(work_orders)
  /\ work_orders[last'.args.id].status \in {"completed", "cancelled"}

\* C24: completed and cancelled are terminal: an update_work_order_status
\* call on an order whose status is completed or cancelled changes neither
\* the order's status nor any inventory quantity.
C24_TerminalStatuses ==
  [][C24_UpdateOfTerminal =>
       /\ work_orders'[last'.args.id].status = work_orders[last'.args.id].status
       /\ inventory_items' = inventory_items]_vars
\* ---------------------------------------------------------------- C25
\* The result and tables of the transaction the step's command runs, computed
\* from the tables alone.
C25_Create(input, role) ==
  /\ last'.args = [NoArgs EXCEPT !.id = Len(work_orders) + 1, !.role = role,
                                 !.status = input.status, !.mileage = input.mileage,
                                 !.cords = input.delivery_size_cords]
  /\ last'.result = CreateWorkOrderTx(Store, input, role).result
  /\ <<inventory_items', work_orders', delivery_events'>> =
       <<CreateWorkOrderTx(Store, input, role).store.inventory_items,
         CreateWorkOrderTx(Store, input, role).store.work_orders,
         CreateWorkOrderTx(Store, input, role).store.delivery_events>>

C25_Update(input, role) ==
  /\ last'.args = [NoArgs EXCEPT !.id = input.work_order_id, !.role = role,
                                 !.is_driver = input.is_driver,
                                 !.status = input.status, !.mileage = input.mileage]
  /\ last'.result = UpdateWorkOrderStatusTx(Store, input, role).result
  /\ <<inventory_items', work_orders', delivery_events'>> =
       <<UpdateWorkOrderStatusTx(Store, input, role).store.inventory_items,
         UpdateWorkOrderStatusTx(Store, input, role).store.work_orders,
         UpdateWorkOrderStatusTx(Store, input, role).store.delivery_events>>

C26_NoSuchOrder ==
  /\ last'.op \in {"update_work_order_status", "update_work_order_assignees"}
  /\ last'.result /= "forbidden"
  /\ \/ last'.args.id \notin 1..Len(work_orders)
     \/ work_orders[last'.args.id].is_deleted

\* C26: update_work_order_status and update_work_order_assignees called (by
\* a role allowed to call them) with an id that names no work order, or a
\* soft-deleted one, return an error and change no work order, delivery
\* event or inventory row.
C26_NotFound ==
  [][C26_NoSuchOrder =>
       /\ last'.result /= "ok"
       /\ UNCHANGED <<work_orders, delivery_events, inventory_items>>]_vars
\* ---------------------------------------------------------------- C27
RECURSIVE C27_ReservedCords(_)
C27_ReservedCords(orders) ==
  IF orders = <<>> THEN 0
  ELSE (IF Head(orders).status \in reserve_states
        THEN unwrap_or(Head(orders).delivery_size_cords, 0) ELSE 0)
       + C27_ReservedCords(Tail(orders))

\* C27: with one tracked stock row that starts with reserved_quantity 0 and
\* is never edited or deleted, after any sequence of create_work_order and
\* update_work_order_status calls (main.rs) reserved_quantity is the sum of
\* delivery_size_cords over the orders whose status is scheduled or
\* in_progress.
C27_ReservedIsSumOfOrders ==
  inventory_items[1].reserved_quantity = C27_ReservedCords(work_orders)
\* ---------------------------------------------------------------- C28
C28_Consumed ==
  /\ last'.op = "update_work_order_status"
  /\ last'.result = "ok"
  /\ \E i \in 1..Len(inventory_items) :
       inventory_items'[i].quantity_on_hand < inventory_items[i].quantity_on_hand

\* C28: update_work_order_status commits no status change on which the
\* ledger decrements quantity_on_hand unless the request carries a mileage,
\* whatever the letter case of the supplied status (the gate and the ledger
\* take the same strings for completed).
C28_ConsumptionNeedsMileage == [][C28_Consumed => IsSome(last'.args.mileage)]_vars
\* ---------------------------------------------------------------- C29
\* What the comparison looks at: Ok or Err, the orders' statuses, and the
\* quantities of the stock rows.
C29_Outcome(result, orders, items) ==
  <<result = "ok",
    [k \in 1..Len(orders) |-> orders[k].status],
    [k \in 1..Len(items) |-> <<items[k].quantity_on_hand, items[k].reserved_quantity>>]>>

C29_CreateInputs ==
  {i \in WorkOrderInputs(ScenarioStatuses, CordInputs \cup {Some(ScenarioA.cords)}, {None}) :
     i.status = last'.args.status /\ i.delivery_size_cords = last'.args.cords}

C29_UpdateInput ==
  [work_order_id |-> last'.args.id, status |-> last'.args.status,
   mileage |-> last'.args.mileage, is_driver |-> last'.args.is_driver]

\* C29: from the same stock and orders, a create_work_order or
\* update_work_order_status call of main.rs and the same call of
\* commands/work_orders.rs return the same Ok/Err outcome and leave the same
\* order statuses, quantity_on_hand and reserved_quantity.
C29_VariantsAgree ==
  [][/\ last'.op = "create_work_order" =>
          \A input \in C29_CreateInputs :
            C29_Outcome(last'.result, work_orders', inventory_items')
              = C29_Outcome(CommandsCreateWorkOrderTx(Store, input, last'.args.role).result,
                            CommandsCreateWorkOrderTx(Store, input, last'.args.role).store.work_orders,
                            CommandsCreateWorkOrderTx(Store, input, last'.args.role).store.inventory_items)
     /\ last'.op = "update_work_order_status" =>
          C29_Outcome(last'.result, work_orders', inventory_items')
            = C29_Outcome(
                CommandsUpdateWorkOrderStatusTx(Store, C29_UpdateInput, last'.args.role).result,
                CommandsUpdateWorkOrderStatusTx(Store, C29_UpdateInput, last'.args.role).store.work_orders,
                CommandsUpdateWorkOrderStatusTx(Store, C29_UpdateInput, last'.args.role).store.inventory_items)]_vars
\* ---------------------------------------------------------------- C30
\* The one order of SpecBinding leaves a reserving status in this step.
C30_Release ==
  /\ last'.op = "update_work_order_status"
  /\ last'.result = "ok"
  /\ work_orders[1].status \in reserve_states
  /\ work_orders'[1].status \notin reserve_states

\* C30: the reservation made for a work order is released from, and its
\* consumption charged to, the inventory row it was reserved on (with one
\* order, the row that holds a reservation), also when create_inventory_item
\* or delete_inventory_item ran in between.
C30_StockBindingStable ==
  [][C30_Release =>
       \A i \in 1..Len(inventory_items) :
         inventory_items[i].reserved_quantity > 0 =>
           /\ inventory_items'[i].reserved_quantity
                = inventory_items[i].reserved_quantity - work_orders[1].delivery_size_cords[1]
           /\ work_orders'[1].status = "completed" =>
                inventory_items'[i].quantity_on_hand
                  = inventory_items[i].quantity_on_hand - work_orders[1].delivery_size_cords[1]]_vars

====
